---- MODULE Spec2Model ----
(***************************************************************************)
(* Model of the MQTT download pipeline, src/downloadMqtt.sh lines 1-216.   *)
(* One invocation of the script is one poll cycle: it drains the topic,    *)
(* runs the per-message loop and emits the batch report.  External tools   *)
(* (jq, yt-dlp, ffmpeg, mv, mosquitto) are modelled by what the script     *)
(* observes of them; their outcomes are nondeterministic inputs.           *)
(***************************************************************************)
EXTENDS Integers, Sequences, FiniteSets, TLC

\* ------------------------------------------------------------------ bounds
\* number of logical jobs the requesters publish over a behaviour
MaxJobs == 2
\* largest RETRY value carried by a message published by a requester
MaxRetryIn == 5
\* longest format listing returned by yt-dlp -F
MaxLines == 2

\* --------------------------------------------------------- message values
\* marker of a JSON key that is not present in the message
Absent == "<absent>"
\* marker of a message without a RETRY key
NoRetry == -1

JobIds == 1..MaxJobs

\* required fields of a message: all four given, or one of them the empty
\* string, or one of them not in the message
FieldShapes ==
    {<<"Hindi", "Actor", "1080", "url">>,
     <<"", "Actor", "1080", "url">>, <<Absent, "Actor", "1080", "url">>,
     <<"Hindi", "", "1080", "url">>, <<"Hindi", Absent, "1080", "url">>,
     <<"Hindi", "Actor", "", "url">>, <<"Hindi", "Actor", Absent, "url">>,
     <<"Hindi", "Actor", "1080", "">>, <<"Hindi", "Actor", "1080", Absent>>}

Json(id, f, r) ==
    [kind |-> "json", id |-> id, LNG |-> f[1], ACT |-> f[2], RES |-> f[3],
     MP4URL |-> f[4], RETRY |-> r]

WellFormed(f) == \A i \in 1..4 : f[i] \notin {"", Absent}

\* the messages a requester may publish for logical job id: a first request
\* (no RETRY) of any shape, a well-formed message published again with a
\* RETRY near the limit (as retry.sh does with the lines of failed-msg.txt),
\* or a message without MP4URL or with an empty one at the largest RETRY
FreshMessages(id) ==
    {Json(id, f, NoRetry) : f \in FieldShapes}
    \cup {Json(id, f, r) : f \in {g \in FieldShapes : WellFormed(g)},
                           r \in (MaxRetryIn - 2)..MaxRetryIn}
    \cup {Json(id, f, MaxRetryIn) :
             f \in {g \in FieldShapes : g[4] \in {"", Absent}}}

\* an empty line of mosquitto_sub output (a zero-length payload)
EmptyLine == [kind |-> "empty", id |-> 0, LNG |-> Absent, ACT |-> Absent,
              RES |-> Absent, MP4URL |-> Absent, RETRY |-> NoRetry]

\* a line of the batch whose leading characters were consumed by another
\* reader of the loop's standard input: no longer a JSON document
Garbled(m) == [kind |-> "garbled", id |-> m.id, LNG |-> Absent,
               ACT |-> Absent, RES |-> Absent, MP4URL |-> Absent,
               RETRY |-> NoRetry]

\* ------------------------------------------------------------ jq lookups
\* jq -r '.FIELD': the string value; "null" for an absent key; nothing when
\* the line is not JSON (jq fails and prints nothing)
Jq(m, field) ==
    IF m.kind # "json" THEN ""
    ELSE IF m[field] = Absent THEN "null" ELSE m[field]

\* jq -r '.RETRY // 0'
JqRetry(m) == IF m.RETRY = NoRetry THEN 0 ELSE m.RETRY

InvalidSkipsUrl(LNG, ACT, RES, MP4URL) == LNG = "" \/ ACT = "" \/ RES = ""

\* [ -z "$LNG" ] || [ -z "$ACT" ] || [ -z "$RES" ] || [ -z "$MP4URL" ]
Invalid(LNG, ACT, RES, MP4URL) ==
    LNG = "" \/ ACT = "" \/ RES = "" \/ MP4URL = ""

\* ------------------------------------------------------ format resolution
\* one line of the yt-dlp -F listing: its first column and what grep sees
FormatLines ==
    {[id |-> "140", kind |-> "audio", height |-> ""],
     [id |-> "399", kind |-> "video", height |-> "1080"],
     [id |-> "398", kind |-> "video", height |-> "720"]}

RECURSIVE SeqsUpTo(_, _)
SeqsUpTo(S, n) ==
    IF n = 0 THEN {<<>>}
    ELSE LET shorter == SeqsUpTo(S, n - 1)
         IN  shorter \cup {Append(s, x) : s \in {t \in shorter : Len(t) = n - 1}, x \in S}

Listings == SeqsUpTo(FormatLines, MaxLines)

\* lines 23 and 68: "${FVCODE_MAP[$RES]}", empty for any other key
FVCODE_MAP(RES) ==
    CASE RES = "2160" -> "401"
      [] RES = "1440" -> "400"
      [] RES = "1080" -> "399"
      [] RES = "720" -> "398"
      [] OTHER -> ""

\* line 69: [ -z "$FVCODE" ] after the lookup; the branch only logs
UnknownRES(RES) == FVCODE_MAP(RES) = ""

\* ... | tail -1 | awk '{print $1}' : first column of the last line, or ""
LastId(lines) == IF lines = <<>> THEN "" ELSE lines[Len(lines)].id

\* echo "$FORMATS" | grep audio | tail -1 | awk '{print $1}'
FACODE(FORMATS) == LastId(SelectSeq(FORMATS, LAMBDA l : l.kind = "audio"))

\* echo "$FORMATS" | grep $RES | tail -1 | awk '{print $1}'
FVCODE(FORMATS, RES) ==
    LastId(SelectSeq(FORMATS, LAMBDA l : l.kind = "video" /\ l.height = RES))

NoFormatCodesBoth(fvcode, facode) == fvcode = "" /\ facode = ""

\* [ -z "$FVCODE" ] || [ -z "$FACODE" ]
NoFormatCodes(fvcode, facode) == fvcode = "" \/ facode = ""

\* ------------------------------------------------------------------ retry
NextRetrySkips(RETRY) == RETRY + 2

NextRetrySame(RETRY) == RETRY

\* RETRY=$((RETRY + 1))
NextRetry(RETRY) == RETRY + 1

ResendOneMore(RETRY) == RETRY <= 5

\* [ "$RETRY" -lt 5 ], on the incremented value
Resend(RETRY) == RETRY < 5

\* jq -c --argjson retry "$RETRY" '.RETRY = $retry'
WithRetry(m, RETRY) == [m EXCEPT !.RETRY = RETRY]

DeadLetterLineWithRetry(m) == WithRetry(m, NextRetry(JqRetry(m)))

\* echo "$msg" >> $FAILED_MSG_LOG (lines 84 and 121): the line as read
DeadLetterLine(m) == m

\* --------------------------------------------------------- external tools
\* FORMATS=$(yt-dlp -F "$MP4URL"): the listing the site returns now; "null"
\* is what jq printed for a message without MP4URL, and is no URL
YtDlpListings(MP4URL) == IF MP4URL = "null" THEN {<<>>} ELSE Listings

\* the <<FVCODE, FACODE>> pairs the listing of this attempt can give
FormatCodes(MP4URL, RES) ==
    {<<FVCODE(FORMATS, RES), FACODE(FORMATS)>> : FORMATS \in YtDlpListings(MP4URL)}

\* exit status of the yt-dlp download
ExitStatuses == {0, 1}

\* [ $? -ne 0 ]
DownloadFailed(status) == status # 0

\* what is left of the loop's standard input after ffmpeg ran: the loop
\* reads the here-string of $messages on its standard input, ffmpeg is
\* started inside the loop without -nostdin and reads commands from the
\* same descriptor; how much it reads depends on how long it runs.  eaten
\* whole lines are consumed and, when partial, the leading characters of
\* the following line too
StdinAfterFfmpeg(input, eaten, partial) ==
    LET rest == SubSeq(input, eaten + 1, Len(input))
    IN  IF partial /\ rest # <<>> /\ Head(rest).kind # "empty"
        THEN <<Garbled(Head(rest))>> \o Tail(rest)
        ELSE rest

\* $(...) drops the trailing newlines of mosquitto_sub's output
RECURSIVE StripTrailing(_)
StripTrailing(lines) ==
    IF lines # <<>> /\ lines[Len(lines)].kind = "empty"
    THEN StripTrailing(SubSeq(lines, 1, Len(lines) - 1))
    ELSE lines

SessionKeepsAll(queued) == queued

\* what the broker still holds for the session after mosquitto_sub received
\* the queued messages at QoS 1: nothing
SessionAfterPoll(queued) == <<>>

LoopInputLive(input, sent) == Append(input, sent)

\* the loop's input after mosquitto_pub sent a message to the topic: the
\* here-string was expanded from $messages before the loop started
LoopInput(input, sent) == input

\* ------------------------------------------------------------------ state
VARIABLES
    topic,           \* messages the broker holds for the subscriber session
    messages,        \* $messages: the batch of the current invocation
    stdin,           \* unread part of the loop's input (<<< "$messages")
    pc,              \* "idle", "loop" (lines 46-192) or "done"
    count,           \* successful downloads of this invocation
    retry_count,     \* resent messages of this invocation
    failed_count,    \* failed messages of this invocation
    FAILED_MSG_LOG,  \* lines of failed-msg.txt
    placed,          \* job ids of the files moved to a target directory
    outcomes,        \* what the loop logged for each message it processed
    published,       \* number of messages the requesters have published
    report,          \* what the end of the invocation logged and sent to Slack
    classifier,      \* shell variables of the placement code, lines 135-179
    video,           \* shell variables of one entry of the file-driven downloader
    workdir,         \* whether "$TMPDIR" of the current invocation exists
    clock,           \* the host's time in seconds, as date prints it
    run,             \* the invocations that overlap on the host, by process
    tmp,             \* the directories under /tmp/songs and their files
    dest,            \* the files of the destination tree
    extension,       \* the browser extension handling one sendMqttMessage
    slack            \* whether the host of SLACK_WEBHOOK_URL can be reached

vars == <<topic, messages, stdin, pc, count, retry_count, failed_count,
          FAILED_MSG_LOG, placed, outcomes, published, report, classifier,
          video, workdir, clock, run, tmp, dest, extension, slack>>

\* the state of the host the overlapping invocations share, and the extension
host == <<clock, run, tmp, dest, extension, slack>>

\* what one iteration of the loop logged about the message it read: the
\* error it reported ("none" when the download exited 0), the format codes
\* it found ("-" when it did not list the formats), whether the download
\* was started and whether mv moved the file
Outcome(m, error, codes, started, moved) ==
    [msg |-> m, error |-> error, FVCODE |-> codes[1], FACODE |-> codes[2],
     downloadStarted |-> started, moved |-> moved]

NotListed == <<"-", "-">>

\* the iteration took the branch of lines 129-190
Succeeded(o) == o.error = "none"

\* the iteration took the branch of lines 114-119
Requeued(o) == o.error = "download" /\ Resend(NextRetry(JqRetry(o.msg)))

\* $summary: line 187 appends the entry of a message whose download exited 0
summary == SelectSeq(outcomes, Succeeded)

\* $retry_summary: line 118 appends the entry of a message sent again
retry_summary == SelectSeq(outcomes, Requeued)

failed_summary_prepended ==
    LET failures == SelectSeq(outcomes, LAMBDA o : ~Succeeded(o) /\ ~Requeued(o))
    IN  [i \in 1..Len(failures) |-> failures[Len(failures) + 1 - i]]

\* $failed_summary: lines 60, 89 and 123 append the entry of a message that
\* was rejected, had no format codes or was given up
failed_summary ==
    SelectSeq(outcomes, LAMBDA o : ~Succeeded(o) /\ ~Requeued(o))

\* the messages the entries of a summary are about
Entries(entries) == [i \in 1..Len(entries) |-> entries[i].msg]

\* exit status of curl: 0 when the request was answered, whatever the HTTP
\* status (there is no -f), 7 when the host cannot be reached
CurlStatus == IF slack = "up" THEN 0 ELSE 7

\* an invocation that has not reached line 196: nothing logged, nothing
\* sent, no exit status
NoReport == [log |-> <<>>, posts |-> <<>>, lines |-> <<>>, exit |-> <<>>]

\* lines 29-32: exit 0 after the poll returned nothing
EmptyBatchExit == [NoReport EXCEPT !.exit = <<0>>]

\* lines 196-216: the sections of the batch report written to the log and
\* the slack_msg handed to curl.  Lines 196-197 log the counts of successes
\* and failures and the summary of the successes; the summaries of the
\* retries and of the failures are logged, and the message is sent, only
\* inside the if of line 201.  The entries of the three summaries follow
\* one another in lines.  The script ends with the if of line 201: its
\* exit status is that of curl, the last command run, and 0 when the
\* condition was false
BatchReport(status) ==
    LET notify == count > 0 \/ failed_count > 0
        retries == IF retry_count > 0 THEN <<"retry_summary">> ELSE <<>>
        failures == IF failed_count > 0 THEN <<"failed_summary">> ELSE <<>>
    IN  [log |-> <<"summary">> \o (IF notify THEN retries \o failures ELSE <<>>),
         posts |-> IF notify THEN << <<"summary">> \o retries \o failures >>
                   ELSE <<>>,
         lines |-> Entries(summary)
                   \o (IF notify
                       THEN Entries(retry_summary) \o Entries(failed_summary)
                       ELSE <<>>),
         exit |-> IF notify THEN <<status>> ELSE <<0>>]

\* the placement code is not running
NoPlacement == [at |-> "idle"]

\* the file-driven downloader is not running
NoEntry == [at |-> "idle"]

\* the extension is not handling a request
NoRequest == [at |-> "idle"]

\* no invocation has been started on the host, nothing is under /tmp/songs
\* or in the destination tree, the extension is not handling a request, the
\* host of the webhook can be reached
HostIdle ==
    /\ clock = 0
    /\ run = <<>>
    /\ tmp = <<>>
    /\ dest = <<>>
    /\ extension = NoRequest
    /\ slack = "up"

Init ==
    /\ topic = <<>>
    /\ messages = <<>>
    /\ stdin = <<>>
    /\ pc = "idle"
    /\ count = 0
    /\ retry_count = 0
    /\ failed_count = 0
    /\ FAILED_MSG_LOG = <<>>
    /\ placed = <<>>
    /\ outcomes = <<>>
    /\ published = 0
    /\ report = NoReport
    /\ classifier = NoPlacement
    /\ video = NoEntry
    /\ workdir = "absent"
    /\ HostIdle

\* a requester publishes the message of a new job, or an empty payload
Publish ==
    /\ published < MaxJobs
    /\ \E m \in FreshMessages(published + 1) \cup {EmptyLine} :
          topic' = Append(topic, m)
    /\ published' = published + 1
    /\ UNCHANGED <<messages, stdin, pc, count, retry_count, failed_count,
                   FAILED_MSG_LOG, placed, outcomes>>
    /\ UNCHANGED <<report, classifier, video, workdir>>
    /\ UNCHANGED host

NoMessagesAfterMkdir ==
    /\ pc \in {"idle", "done"}
    /\ StripTrailing(topic) = <<>>
    /\ topic' = SessionAfterPoll(topic)
    /\ messages' = <<>>
    /\ stdin' = <<>>
    /\ pc' = "idle"
    /\ count' = 0
    /\ retry_count' = 0
    /\ failed_count' = 0
    /\ outcomes' = <<>>
    /\ UNCHANGED <<FAILED_MSG_LOG, placed, published>>
    /\ report' = EmptyBatchExit
    /\ workdir' = "present"
    /\ UNCHANGED <<classifier, video>>
    /\ UNCHANGED host

\* an invocation whose poll returns nothing but newlines: exit 0 at line 31
NoMessages ==
    /\ pc \in {"idle", "done"}
    /\ StripTrailing(topic) = <<>>
    /\ topic' = SessionAfterPoll(topic)
    /\ messages' = <<>>
    /\ stdin' = <<>>
    /\ pc' = "idle"
    /\ count' = 0
    /\ retry_count' = 0
    /\ failed_count' = 0
    /\ outcomes' = <<>>
    /\ UNCHANGED <<FAILED_MSG_LOG, placed, published>>
    /\ report' = EmptyBatchExit
    /\ UNCHANGED <<classifier, video, workdir>>
    /\ UNCHANGED host

\* an invocation whose mosquitto_sub cannot reach the broker: it prints
\* nothing, the session keeps what is queued, exit 0 at line 31
BrokerUnavailable ==
    /\ pc \in {"idle", "done"}
    /\ messages' = <<>>
    /\ stdin' = <<>>
    /\ pc' = "idle"
    /\ count' = 0
    /\ retry_count' = 0
    /\ failed_count' = 0
    /\ outcomes' = <<>>
    /\ UNCHANGED <<topic, FAILED_MSG_LOG, placed, published>>
    /\ report' = EmptyBatchExit
    /\ UNCHANGED <<classifier, video, workdir>>
    /\ UNCHANGED host

\* an invocation whose poll returns messages: lines 27-43
Poll ==
    /\ pc \in {"idle", "done"}
    /\ StripTrailing(topic) # <<>>
    /\ topic' = SessionAfterPoll(topic)
    /\ messages' = StripTrailing(topic)
    /\ stdin' = StripTrailing(topic)
    /\ pc' = "loop"
    /\ count' = 0
    /\ retry_count' = 0
    /\ failed_count' = 0
    /\ outcomes' = <<>>
    /\ UNCHANGED <<FAILED_MSG_LOG, placed, published>>
    /\ report' = NoReport
    /\ workdir' = "present"
    /\ UNCHANGED <<classifier, video>>
    /\ UNCHANGED host

\* the message read by this iteration of the loop
msg == Head(stdin)

Reading == pc = "loop" /\ stdin # <<>>

IsInvalid(m) == Invalid(Jq(m, "LNG"), Jq(m, "ACT"), Jq(m, "RES"), Jq(m, "MP4URL"))

\* [ -z "$msg" ] && continue
SkipEmpty ==
    /\ Reading
    /\ msg.kind = "empty"
    /\ stdin' = Tail(stdin)
    /\ UNCHANGED <<topic, messages, pc, count, retry_count, failed_count,
                   FAILED_MSG_LOG, placed, outcomes, published>>
    /\ UNCHANGED <<report, classifier, video, workdir>>
    /\ UNCHANGED host

\* lines 58-63
InvalidMessage ==
    /\ Reading
    /\ msg.kind # "empty"
    /\ IsInvalid(msg)
    /\ failed_count' = failed_count + 1
    /\ outcomes' = Append(outcomes, Outcome(msg, "validation", NotListed, FALSE, FALSE))
    /\ stdin' = Tail(stdin)
    /\ UNCHANGED <<topic, messages, pc, count, retry_count, FAILED_MSG_LOG,
                   placed, published>>
    /\ UNCHANGED <<report, classifier, video, workdir>>
    /\ UNCHANGED host

\* the iteration got past validation: lines 46-63
Validated == Reading /\ msg.kind # "empty" /\ ~IsInvalid(msg)

\* the codes the listing of this iteration can give: lines 74-80
Listable == FormatCodes(Jq(msg, "MP4URL"), Jq(msg, "RES"))

\* lines 82-92
FormatFailure ==
    /\ Validated
    /\ \E codes \in Listable :
        /\ NoFormatCodes(codes[1], codes[2])
        /\ FAILED_MSG_LOG' = Append(FAILED_MSG_LOG, DeadLetterLine(msg))
        /\ failed_count' = failed_count + 1
        /\ outcomes' = Append(outcomes, Outcome(msg, "format", codes, FALSE, FALSE))
        /\ stdin' = Tail(stdin)
        /\ UNCHANGED <<topic, messages, pc, count, retry_count, placed, published>>
    /\ UNCHANGED <<report, classifier, video, workdir>>
    /\ UNCHANGED host

\* lines 110-119
DownloadFailedResend ==
    /\ Validated
    /\ \E codes \in Listable, status \in ExitStatuses :
        /\ ~NoFormatCodes(codes[1], codes[2])
        /\ DownloadFailed(status)
        /\ LET RETRY == NextRetry(JqRetry(msg))
               new_msg == WithRetry(msg, RETRY)
           IN  /\ Resend(RETRY)
               /\ topic' = Append(topic, new_msg)
               /\ stdin' = LoopInput(Tail(stdin), new_msg)
        /\ retry_count' = retry_count + 1
        /\ outcomes' = Append(outcomes, Outcome(msg, "download", codes, TRUE, FALSE))
        /\ UNCHANGED <<messages, pc, count, failed_count, FAILED_MSG_LOG, placed,
                       published>>
    /\ UNCHANGED <<report, classifier, video, workdir>>
    /\ UNCHANGED host

\* lines 110-113, 120-126
DownloadFailedGiveUp ==
    /\ Validated
    /\ \E codes \in Listable, status \in ExitStatuses :
        /\ ~NoFormatCodes(codes[1], codes[2])
        /\ DownloadFailed(status)
        /\ ~Resend(NextRetry(JqRetry(msg)))
        /\ FAILED_MSG_LOG' = Append(FAILED_MSG_LOG, DeadLetterLine(msg))
        /\ failed_count' = failed_count + 1
        /\ outcomes' = Append(outcomes, Outcome(msg, "download", codes, TRUE, FALSE))
        /\ stdin' = Tail(stdin)
        /\ UNCHANGED <<topic, messages, pc, count, retry_count, placed, published>>
    /\ UNCHANGED <<report, classifier, video, workdir>>
    /\ UNCHANGED host

\* lines 129-190: the exit status of ffmpeg, ffprobe and mv is not looked at
Downloaded ==
    /\ Validated
    /\ \E codes \in Listable, status \in ExitStatuses :
        /\ ~NoFormatCodes(codes[1], codes[2])
        /\ ~DownloadFailed(status)
        /\ \E moved \in BOOLEAN :
              /\ placed' = IF moved THEN Append(placed, msg.id) ELSE placed
              /\ outcomes' = Append(outcomes, Outcome(msg, "none", codes, TRUE, moved))
        /\ \E eaten \in 0..(Len(stdin) - 1), partial \in BOOLEAN :
              stdin' = StdinAfterFfmpeg(Tail(stdin), eaten, partial)
        /\ count' = count + 1
        /\ UNCHANGED <<topic, messages, pc, retry_count, failed_count,
                       FAILED_MSG_LOG, published>>
    /\ UNCHANGED <<report, classifier, video, workdir>>
    /\ UNCHANGED host

\* lines 194-216: the zero-length retained publish (QoS 0) clears the
\* retained message and is not queued for the disconnected subscriber;
\* rm -rf removes the working directory before the report is sent
Finish ==
    /\ pc = "loop"
    /\ stdin = <<>>
    /\ pc' = "done"
    /\ UNCHANGED <<topic, messages, stdin, count, retry_count, failed_count,
                   FAILED_MSG_LOG, placed, outcomes, published>>
    /\ report' = BatchReport(CurlStatus)
    /\ workdir' = "absent"
    /\ UNCHANGED <<classifier, video>>
    /\ UNCHANGED host

Next ==
    \/ Publish
    \/ NoMessages
    \/ Poll
    \/ SkipEmpty
    \/ InvalidMessage
    \/ FormatFailure
    \/ DownloadFailedResend
    \/ DownloadFailedGiveUp
    \/ Downloaded
    \/ Finish

Spec == Init /\ [][Next]_vars

\* one iteration of the loop, whatever its branch
Iteration ==
    \/ SkipEmpty
    \/ InvalidMessage
    \/ FormatFailure
    \/ DownloadFailedResend
    \/ DownloadFailedGiveUp
    \/ Downloaded

\* first requests as the browser extension sends them (no RETRY key), well
\* formed or with MP4URL empty or missing
FirstRequests(id) ==
    {Json(id, f, NoRetry) :
        f \in {g \in FieldShapes : \A i \in 1..3 : g[i] \notin {"", Absent}}}

\* a requester publishes a first request, or an empty payload
PublishRequest ==
    /\ published < MaxJobs
    /\ \E m \in FirstRequests(published + 1) \cup {EmptyLine} :
          topic' = Append(topic, m)
    /\ published' = published + 1
    /\ UNCHANGED <<messages, stdin, pc, count, retry_count, failed_count,
                   FAILED_MSG_LOG, placed, outcomes>>
    /\ UNCHANGED <<report, classifier, video, workdir>>
    /\ UNCHANGED host

LiveNext ==
    \/ PublishRequest
    \/ NoMessages
    \/ Poll
    \/ SkipEmpty
    \/ InvalidMessage
    \/ FormatFailure
    \/ DownloadFailedResend
    \/ DownloadFailedGiveUp
    \/ Downloaded
    \/ Finish

\* the pipeline fed with first requests only, under the scheduling the
\* script runs with: cron keeps starting it, and a started script runs to
\* its end (every external tool it waits for returns)
LiveSpec ==
    /\ Init
    /\ [][LiveNext]_vars
    /\ WF_vars(Poll)
    /\ WF_vars(Iteration)
    /\ WF_vars(Finish)

\* a message asking for a resolution that is not 720, 1080, 1440 or 2160
OtherRes == <<"Hindi", "Actor", "480", "url">>

\* the messages of a job on the topic: with the four required fields and a
\* RES of the table or another one, or with an empty LNG; published for
\* the first time or again with RETRY 4
JobMessages(id) ==
    {Json(id, f, r) : f \in {<<"Hindi", "Actor", "1080", "url">>, OtherRes,
                              <<"", "Actor", "1080", "url">>},
                      r \in {NoRetry, 4}}

\* a requester publishes a message of a new job
PublishJob ==
    /\ published < MaxJobs
    /\ \E m \in JobMessages(published + 1) : topic' = Append(topic, m)
    /\ published' = published + 1
    /\ UNCHANGED <<messages, stdin, pc, count, retry_count, failed_count,
                   FAILED_MSG_LOG, placed, outcomes>>
    /\ UNCHANGED <<report, classifier, video, workdir>>
    /\ UNCHANGED host

\* the host of the webhook goes out of reach, or comes back
SlackChange ==
    /\ slack' = IF slack = "up" THEN "down" ELSE "up"
    /\ UNCHANGED <<topic, messages, stdin, pc, count, retry_count, failed_count,
                   FAILED_MSG_LOG, placed, outcomes, published>>
    /\ UNCHANGED <<report, classifier, video, workdir>>
    /\ UNCHANGED <<clock, run, tmp, dest, extension>>

CycleNext ==
    \/ PublishJob
    \/ SlackChange
    \/ NoMessages
    \/ BrokerUnavailable
    \/ Poll
    \/ InvalidMessage
    \/ FormatFailure
    \/ DownloadFailedResend
    \/ DownloadFailedGiveUp
    \/ Downloaded
    \/ Finish

\* the invocations of the script, one after the other, with a broker and a
\* webhook host that may be out of reach when the script turns to them
CycleSpec == Init /\ [][CycleNext]_vars

\* ------------------------------------------------------------------ text
\* a word of a message or of an entry with its letter case; the shell
\* compares and lower-cases strings character by character, the model keeps
\* the lower-cased word and the casing apart
Casings == {"lower", "Title", "UPPER"}

Text(word, casing) == [word |-> word, casing |-> casing]

\* tr '[:upper:]' '[:lower:]' and ${VAR,,}
ToLower(t) == Text(t.word, "lower")

\* a string literal of the script
Lower(word) == Text(word, "lower")

Title(word) == Text(word, "Title")

\* ------------------------- the file-driven downloader, src/unnamed/part_006
\* longest list of "video only" lines of a listing
MaxVideo == 2
\* longest list of "audio only" lines of a listing
MaxAudio == 2

\* first column of the listing lines, by position
VideoIds == <<"136", "137", "400", "313">>

AudioIds == <<"139", "140", "249", "250">>

\* heights of the third column (WIDTHxHEIGHT) and codecs of the tenth one
Heights == {720, 1080, 1440}

Encodings == {"av01", "avc1", "vp9", "hev1"}

\* the seventeenth word of an "audio only" line
Qualities == {"high", "medium", "low", "ultralow"}

\* line 115: one object per "video only" line, in listing order; height is
\* what .resolution | split("x")[1] | tonumber gives at line 148
VideoListings ==
    {[i \in 1..Len(s) |-> [id |-> VideoIds[i], height |-> s[i][1], encoding |-> s[i][2]]] :
        s \in SeqsUpTo(Heights \X Encodings, MaxVideo)}

\* line 116: one object per "audio only" line, in listing order
AudioListings ==
    {[i \in 1..Len(s) |-> [id |-> AudioIds[i], quality |-> s[i]]] :
        s \in SeqsUpTo(Qualities, MaxAudio)}

\* what jq -r prints for null
Null == "null"

\* jq: a // b on ids: a unless it is null
AltId(a, b) == IF a = Null THEN b ELSE a

\* jq: a // b where a is an array: an array, also the empty one, is neither
\* null nor false, so // keeps it
AltArray(a, b) == a

\* jq: .[0].id
HeadId(list) == IF list = <<>> THEN Null ELSE list[1].id

\* jq: if length > 0 then .[-1].id else empty end (lines 134, 165)
LastListed(list) == IF list = <<>> THEN "" ELSE list[Len(list)].id

\* lines 126-128: map(select(.quality==q)) | .[0].id
FirstOfQuality(AFORMAT, q) == HeadId(SelectSeq(AFORMAT, LAMBDA a : a.quality = q))

\* [ -z "$X" ] || [ "$X" == "null" ] (lines 131, 162)
EmptyOrNull(x) == x = "" \/ x = Null

AudioTierFirstLow(AFORMAT) ==
    AltId(FirstOfQuality(AFORMAT, "low"),
          AltId(FirstOfQuality(AFORMAT, "medium"), FirstOfQuality(AFORMAT, "high")))

\* lines 124-129
AudioTier(AFORMAT) ==
    AltId(FirstOfQuality(AFORMAT, "high"),
          AltId(FirstOfQuality(AFORMAT, "medium"), FirstOfQuality(AFORMAT, "low")))

\* lines 124-137: ADOWNLOADFORMAT after the fallback to the last-listed one
SelectAudioId(AFORMAT) ==
    IF EmptyOrNull(AudioTier(AFORMAT)) THEN LastListed(AFORMAT) ELSE AudioTier(AFORMAT)

\* lines 140-144: pref(enc)
pref(enc) ==
    CASE enc = "av01" -> 0
      [] enc = "avc1" -> 1
      [] enc = "vp9" -> 2
      [] OTHER -> 3

\* jq: sort_by(.height) | .[:1] : the first listed of the elements with
\* the least height (the sort is stable)
Lowest(list) ==
    IF list = <<>> THEN <<>>
    ELSE LET least == CHOOSE n \in {list[i].height : i \in 1..Len(list)} :
                          \A i \in 1..Len(list) : n <= list[i].height
         IN  <<SelectSeq(list, LAMBDA c : c.height = least)[1]>>

\* jq: sort_by(.enc_pref) | .[:1] : the first listed of the elements with
\* the least enc_pref
MostPreferred(list) ==
    IF list = <<>> THEN <<>>
    ELSE LET least == CHOOSE n \in {pref(list[i].encoding) : i \in 1..Len(list)} :
                          \A i \in 1..Len(list) : n <= pref(list[i].encoding)
         IN  <<SelectSeq(list, LAMBDA c : pref(c.encoding) = least)[1]>>

\* jq: sort_by(.height) | reverse | .[:1] : the last listed of the elements
\* with the greatest height
Highest(list) ==
    IF list = <<>> THEN <<>>
    ELSE LET most == CHOOSE n \in {list[i].height : i \in 1..Len(list)} :
                         \A i \in 1..Len(list) : n >= list[i].height
             tallest == SelectSeq(list, LAMBDA c : c.height = most)
         IN  <<tallest[Len(tallest)]>>

\* line 153
ExactMatch(VFORMAT, target) == SelectSeq(VFORMAT, LAMBDA c : c.height = target)

\* line 154
NearestHigher(VFORMAT, target) ==
    Lowest(SelectSeq(VFORMAT, LAMBDA c : c.height > target))

\* lines 152-156: the candidate group
CandidateGroup(VFORMAT, target) ==
    AltArray(ExactMatch(VFORMAT, target),
             AltArray(NearestHigher(VFORMAT, target), Highest(VFORMAT)))

\* line 158: sort_by(.enc_pref) | .[0].id
BestEncodingId(group) == HeadId(MostPreferred(group))

\* lines 139-168: VDOWNLOADFORMAT after the fallback to the last-listed one
SelectVideoId(VFORMAT, target) ==
    LET picked == BestEncodingId(CandidateGroup(VFORMAT, target))
    IN  IF EmptyOrNull(picked) THEN LastListed(VFORMAT) ELSE picked

\* [ $X == "null" ] with $X unquoted (lines 170, 174): for an empty $X the
\* test is a syntax error and the branch is not taken
IsNullWord(x) == x # "" /\ x = Null

\* lines 170-176
LastResortId(x, hardcoded) == IF IsNullWord(x) THEN hardcoded ELSE x

\* lines 91-106: resDir from the requested resolution
ResDir(RESOLUTION) ==
    IF RESOLUTION >= 1440 THEN "4k"
    ELSE IF RESOLUTION > 1080 THEN "2k"
    ELSE IF RESOLUTION > 720 THEN "1080p"
    ELSE IF RESOLUTION = 720 THEN "720p"
    ELSE IF RESOLUTION <= 600 THEN "sd"
    ELSE "1080p"

\* lines 194-210: the lower-cased language, then one if after the other
NormalizeLang(LANG) ==
    LET l0 == ToLower(LANG)
        l1 == IF l0 \in {Lower("telugu"), Lower("tamil"), Lower("malayalam"),
                         Lower("kannada")}
              THEN Title("south") ELSE l0
        l2 == IF l1 \in {Lower("hindi"), Lower("bengali")} THEN Title("hindi") ELSE l1
        l3 == IF l2 = Lower("english") THEN Title("english") ELSE l2
        l4 == IF l3 = Lower("marathi") THEN Title("marathi") ELSE l3
    IN  IF l4 = Lower("bhojpuri") THEN Title("bhojpuri") ELSE l4

\* lines 211-222: an entry whose actress is "movie" in any letter case goes
\* to the movie store
FinalDestination(LANG, resDir, actress) ==
    IF ToLower(actress) = Lower("movie")
    THEN <<"MOVIE_STORE_DIR",
           IF LANG = Title("english") THEN Lower("hollywood") ELSE Lower("bollywood")>>
    ELSE <<"SONG_STORE_DIR", LANG, Lower(resDir), actress>>

\* languages and actresses of the entries of videos.txt
Languages ==
    {Text(w, c) : w \in {"telugu", "tamil", "kannada", "malayalam", "hindi",
                         "bengali", "english", "marathi", "bhojpuri", "punjabi",
                         "south", "malyalam"},
                  c \in Casings}

Actresses == {Title("anushka"), Lower("movie"), Title("movie")}

\* one entry read at line 60, before line 91
Entry(dry, RESOLUTION, LANG, actress) ==
    [at |-> "entry", DRY_RUN |-> dry, entry |-> [LANG |-> LANG, actress |-> actress],
     RESOLUTION |-> RESOLUTION, LANG |-> LANG, actress |-> actress, resDir |-> "",
     VFORMAT |-> <<>>, AFORMAT |-> <<>>, ADOWNLOADFORMAT |-> "",
     VDOWNLOADFORMAT |-> "", format |-> <<>>, FINAL_DESTINATION |-> <<>>]

\* entries of a run with --dry-run, and entries of a run that lists and
\* downloads
DryRunEntries ==
    {Entry(TRUE, r, l, a) : r \in {480, 700, 720, 1080, 1200, 1440, 2160},
                            l \in Languages, a \in Actresses}

DownloadEntries ==
    {Entry(FALSE, r, Title("hindi"), Title("anushka")) : r \in {720, 1080}}

VideoInit ==
    /\ topic = <<>>
    /\ messages = <<>>
    /\ stdin = <<>>
    /\ pc = "idle"
    /\ count = 0
    /\ retry_count = 0
    /\ failed_count = 0
    /\ FAILED_MSG_LOG = <<>>
    /\ placed = <<>>
    /\ outcomes = <<>>
    /\ published = 0
    /\ report = NoReport
    /\ classifier = NoPlacement
    /\ video \in DryRunEntries \cup DownloadEntries
    /\ workdir = "absent"
    /\ HostIdle

pipeline == <<topic, messages, stdin, pc, count, retry_count, failed_count,
              FAILED_MSG_LOG, placed, outcomes, published, report, classifier,
              workdir, clock, run, tmp, dest, extension, slack>>

\* lines 91-106
SetResDir ==
    /\ video.at = "entry"
    /\ video' = [video EXCEPT !.resDir = ResDir(video.RESOLUTION), !.at = "formats"]
    /\ UNCHANGED pipeline

\* lines 110-116: the listing yt-dlp -F returns
ListFormats ==
    /\ video.at = "formats"
    /\ ~video.DRY_RUN
    /\ \E V \in VideoListings, A \in AudioListings :
          video' = [video EXCEPT !.VFORMAT = V, !.AFORMAT = A, !.at = "audio"]
    /\ UNCHANGED pipeline

\* lines 117-121
DryRunFormats ==
    /\ video.at = "formats"
    /\ video.DRY_RUN
    /\ video' = [video EXCEPT
                   !.VFORMAT = <<[id |-> "137", height |-> 1080, encoding |-> "avc1"]>>,
                   !.AFORMAT = <<[id |-> "140", quality |-> "medium"]>>,
                   !.at = "audio"]
    /\ UNCHANGED pipeline

\* lines 123-137
SelectAudio ==
    /\ video.at = "audio"
    /\ video' = [video EXCEPT !.ADOWNLOADFORMAT = SelectAudioId(video.AFORMAT),
                              !.at = "video"]
    /\ UNCHANGED pipeline

\* lines 138-168
SelectVideo ==
    /\ video.at = "video"
    /\ video' = [video EXCEPT
                   !.VDOWNLOADFORMAT = SelectVideoId(video.VFORMAT, video.RESOLUTION),
                   !.at = "lastresort"]
    /\ UNCHANGED pipeline

\* lines 170-176
LastResort ==
    /\ video.at = "lastresort"
    /\ video' = [video EXCEPT
                   !.VDOWNLOADFORMAT = LastResortId(video.VDOWNLOADFORMAT, "401"),
                   !.ADOWNLOADFORMAT = LastResortId(video.ADOWNLOADFORMAT, "251"),
                   !.at = "download"]
    /\ UNCHANGED pipeline

\* lines 178-187: yt-dlp -f "$VDOWNLOADFORMAT+$ADOWNLOADFORMAT"
Download ==
    /\ video.at = "download"
    /\ ~video.DRY_RUN
    /\ video' = [video EXCEPT
                   !.format = <<video.VDOWNLOADFORMAT, video.ADOWNLOADFORMAT>>,
                   !.at = "normalize"]
    /\ UNCHANGED pipeline

\* lines 188-191
DryRunDownload ==
    /\ video.at = "download"
    /\ video.DRY_RUN
    /\ video' = [video EXCEPT !.at = "normalize"]
    /\ UNCHANGED pipeline

\* lines 193-210
NormalizeLanguage ==
    /\ video.at = "normalize"
    /\ video' = [video EXCEPT !.LANG = NormalizeLang(video.LANG), !.at = "destination"]
    /\ UNCHANGED pipeline

\* lines 211-236
Destination ==
    /\ video.at = "destination"
    /\ video' = [video EXCEPT
                   !.FINAL_DESTINATION =
                       FinalDestination(video.LANG, video.resDir, video.actress),
                   !.at = "done"]
    /\ UNCHANGED pipeline

VideoNext ==
    \/ SetResDir
    \/ ListFormats
    \/ DryRunFormats
    \/ SelectAudio
    \/ SelectVideo
    \/ LastResort
    \/ Download
    \/ DryRunDownload
    \/ NormalizeLanguage
    \/ Destination

\* one entry of videos.txt processed by the file-driven downloader
VideoSpec == VideoInit /\ [][VideoNext]_vars

\* --------------------- placement of a downloaded file, downloadMqtt.sh
\* a value of RES: digits, or a text that is no integer (jq prints null for
\* a message without RES)
Number(n) == [digits |-> TRUE, n |-> n]

NotANumber == [digits |-> FALSE, n |-> 0]

\* [ "$RES" -le k ]: a text that is no integer makes the test fail
Le(RES, k) == RES.digits /\ RES.n <= k

\* what ffprobe ... | grep height | grep -v coded | cut -d "=" -f 2 prints:
\* nothing when the probe fails, else the height of the video stream
Probes == {<<>>} \cup {<<h>> : h \in {480, 720, 1080, 1440, 2160, 4320}}

\* one bucket below: a lookup table shifted by one tier
FVSTORE_MAP_Shifted(HEIGHT) ==
    CASE HEIGHT = <<2160>> -> "2k"
      [] HEIGHT = <<1440>> -> "1080p"
      [] HEIGHT = <<1080>> -> "720p"
      [] HEIGHT = <<720>> -> "720p"
      [] OTHER -> ""

\* line 24 and line 137: "${FVSTORE_MAP[$HEIGHT]}", empty for any other key
FVSTORE_MAP(HEIGHT) ==
    CASE HEIGHT = <<2160>> -> "4k"
      [] HEIGHT = <<1440>> -> "2k"
      [] HEIGHT = <<1080>> -> "1080p"
      [] HEIGHT = <<720>> -> "720p"
      [] OTHER -> ""

\* lines 141-152: the thresholds on the requested resolution
VRESOfRES(RES) ==
    IF Le(RES, 720) THEN "720p"
    ELSE IF Le(RES, 1080) THEN "1080p"
    ELSE IF Le(RES, 1440) THEN "2k"
    ELSE "4k"

\* lines 137-153
VRES(HEIGHT, RES) ==
    IF FVSTORE_MAP(HEIGHT) = "" THEN VRESOfRES(RES) ELSE FVSTORE_MAP(HEIGHT)

NormalizeLngWithHindi(LNG) ==
    IF ToLower(LNG) \in {Lower("telugu"), Lower("kannada"), Lower("tamil"),
                         Lower("malayalam"), Lower("malyalam")}
    THEN Title("south")
    ELSE IF ToLower(LNG) \in {Lower("hindi"), Lower("bengali")}
         THEN Title("hindi") ELSE LNG

\* lines 155-160
NormalizeLng(LNG) ==
    IF ToLower(LNG) \in {Lower("telugu"), Lower("kannada"), Lower("tamil"),
                         Lower("malayalam"), Lower("malyalam")}
    THEN Title("south")
    ELSE LNG

\* lines 164-171: LNG is set to bollywood and only then compared with
\* english
MovieLng(LNG) ==
    LET bollywood == Lower("bollywood")
    IN  IF bollywood = Lower("english") THEN Lower("hollywood") ELSE bollywood

TargetDirActFirst(LNG, vres, ACT, TYPE) ==
    IF ToLower(TYPE) = Lower("movie")
    THEN <<"BASE_MOVIE_DIR", MovieLng(LNG)>>
    ELSE <<"BASE_SONG_DIR", ACT, Lower(vres), LNG>>

\* lines 162-171
TargetDir(LNG, vres, ACT, TYPE) ==
    IF ToLower(TYPE) = Lower("movie")
    THEN <<"BASE_MOVIE_DIR", MovieLng(LNG)>>
    ELSE <<"BASE_SONG_DIR", LNG, Lower(vres), ACT>>

\* values of TYPE: song or movie in some letter case, or null for a message
\* without TYPE
Types ==
    {Text("song", c) : c \in Casings} \cup {Text("movie", c) : c \in Casings}
    \cup {Lower("null")}

\* values of RES
Resolutions ==
    {Number(n) : n \in {480, 720, 1080, 1440, 2160, 4320}} \cup {NotANumber}

\* the shell variables at line 129, after a download that exited 0
Downloads ==
    {[at |-> "probe", job |-> [LNG |-> l, ACT |-> a, RES |-> r, TYPE |-> t],
      HEIGHT |-> <<>>, VRES |-> "", LNG |-> l, TARGET_DIR |-> <<>>, moved |-> FALSE] :
        l \in Languages, a \in {Title("anushka"), Lower("movie")},
        r \in Resolutions, t \in Types}

PlacementInit ==
    /\ topic = <<>>
    /\ messages = <<>>
    /\ stdin = <<>>
    /\ pc = "idle"
    /\ count = 0
    /\ retry_count = 0
    /\ failed_count = 0
    /\ FAILED_MSG_LOG = <<>>
    /\ placed = <<>>
    /\ outcomes = <<>>
    /\ published = 0
    /\ report = NoReport
    /\ workdir = "absent"
    /\ HostIdle
    /\ \/ classifier \in Downloads /\ video = NoEntry
       \/ classifier = NoPlacement /\ video \in DryRunEntries

others == <<topic, messages, stdin, pc, count, retry_count, failed_count,
            FAILED_MSG_LOG, placed, outcomes, published, report, video,
            workdir, clock, run, tmp, dest, extension, slack>>

\* line 135
ProbeHeight ==
    /\ classifier.at = "probe"
    /\ \E HEIGHT \in Probes :
          classifier' = [classifier EXCEPT !.HEIGHT = HEIGHT, !.at = "bucket"]
    /\ UNCHANGED others

\* lines 137-153
StorageBucket ==
    /\ classifier.at = "bucket"
    /\ classifier' = [classifier EXCEPT
                        !.VRES = VRES(classifier.HEIGHT, classifier.job.RES),
                        !.at = "language"]
    /\ UNCHANGED others

\* lines 155-160
NormalizeLNG ==
    /\ classifier.at = "language"
    /\ classifier' = [classifier EXCEPT !.LNG = NormalizeLng(classifier.LNG),
                                        !.at = "target"]
    /\ UNCHANGED others

\* lines 162-171: the song path, then the movie branch
SetTargetDir ==
    /\ classifier.at = "target"
    /\ classifier' = [classifier EXCEPT
                        !.TARGET_DIR = TargetDir(classifier.LNG, classifier.VRES,
                                                 classifier.job.ACT, classifier.job.TYPE),
                        !.LNG = IF ToLower(classifier.job.TYPE) = Lower("movie")
                                THEN MovieLng(classifier.LNG) ELSE classifier.LNG,
                        !.at = "move"]
    /\ UNCHANGED others

\* lines 173-179: the exit status of mv is not looked at
MoveFile ==
    /\ classifier.at = "move"
    /\ \E moved \in BOOLEAN :
          classifier' = [classifier EXCEPT !.moved = moved, !.at = "done"]
    /\ UNCHANGED others

PlacementNext ==
    \/ ProbeHeight
    \/ StorageBucket
    \/ NormalizeLNG
    \/ SetTargetDir
    \/ MoveFile
    \/ SetResDir
    \/ DryRunFormats
    \/ SelectAudio
    \/ SelectVideo
    \/ LastResort
    \/ DryRunDownload
    \/ NormalizeLanguage
    \/ Destination

\* the placement of one file: by lines 135-179 of downloadMqtt.sh after a
\* download, or by a dry run of the file-driven downloader for one entry
PlacementSpec == PlacementInit /\ [][PlacementNext]_vars

\* ------------- invocations of downloadMqtt.sh that overlap on one host
\* number of invocations started over a behaviour
MaxRuns == 2
\* last second of the host's clock
MaxClock == 1

Runs == 1..MaxRuns

\* the videos the requests are about
Videos == {1, 2}

\* the request for video v, as the extension publishes it
VideoRequest(v) == Json(v, <<"Hindi", "Actor", "1080", <<"url", v>>>>, NoRetry)

\* an invocation that has not been started
\* resumed: the download in progress found its streams partly downloaded;
\* FILE: the file found for the message in progress; overlapped: another
\* invocation has been running since this one started
NotStarted ==
    [pc |-> "off", timestamp |-> 0, batch |-> <<>>, FILE |-> <<>>,
     resumed |-> FALSE, overlapped |-> FALSE]

\* an invocation that has ended: its variables are gone, the second of its
\* start is kept
Exited(r) == [NotStarted EXCEPT !.pc = "exited", !.timestamp = r.timestamp]

\* a file yt-dlp writes for the video of MP4URL under -o "%(title)s.%(ext)s":
\* the streams being downloaded (.part) or the merged file; by is the
\* invocation whose yt-dlp wrote it last
FileOf(MP4URL, part, by) == [video |-> MP4URL[2], part |-> part, by |-> by]

\* mkdir -p
Mkdir(fs, dir) == IF dir \in DOMAIN fs THEN fs ELSE fs @@ (dir :> <<>>)

\* rm -rf
RmRf(fs, dir) == [d \in DOMAIN fs \ {dir} |-> fs[d]]

\* the files of a directory, the most recently modified last
Files(fs, dir) == IF dir \in DOMAIN fs THEN fs[dir] ELSE <<>>

\* the files of a directory other than those of video v
Without(files, v) == SelectSeq(files, LAMBDA f : f.video # v)

\* yt-dlp writes a file of a video: the output directory is created when it
\* is missing, the file replaces what the directory had for the video and
\* is the most recently modified one
Write(fs, dir, file) ==
    [Mkdir(fs, dir) EXCEPT ![dir] = Append(Without(@, file.video), file)]

\* -c: the streams of the video are in the directory, partly downloaded
HasPart(fs, dir, v) ==
    \E i \in 1..Len(Files(fs, dir)) :
        Files(fs, dir)[i].video = v /\ Files(fs, dir)[i].part

\* FILE=$(ls -t "$TMPDIR" | head -1): nothing for a missing or empty
\* directory
MostRecent(fs, dir) ==
    IF Files(fs, dir) = <<>> THEN <<>> ELSE <<Files(fs, dir)[Len(Files(fs, dir))]>>

\* TARGET_DIR as lines 135-171 derive it from the fields of the message
TargetOf(m) == <<m.LNG, m.RES, m.ACT>>

\* DEST="$TARGET_DIR/$FILE"
DestOf(m, file) == <<TargetOf(m), file.video, file.part>>

MvNoClobber(tree, path, file) ==
    IF path \in DOMAIN tree THEN tree ELSE tree @@ (path :> file)

\* mv "$SRC" "$DEST": a file already at DEST is replaced
Mv(tree, path, file) ==
    [p \in DOMAIN tree \cup {path} |-> IF p = path THEN file ELSE tree[p]]

RunInit ==
    /\ topic = <<>>
    /\ messages = <<>>
    /\ stdin = <<>>
    /\ pc = "idle"
    /\ count = 0
    /\ retry_count = 0
    /\ failed_count = 0
    /\ FAILED_MSG_LOG = <<>>
    /\ placed = <<>>
    /\ outcomes = <<>>
    /\ published = 0
    /\ report = NoReport
    /\ classifier = NoPlacement
    /\ video = NoEntry
    /\ workdir = "absent"
    /\ clock = 0
    /\ run = [p \in Runs |-> NotStarted]
    /\ tmp = <<>>
    /\ dest = <<>>
    /\ extension = NoRequest
    /\ slack = "up"

\* what the invocations of this part leave alone
single == <<messages, stdin, pc, count, retry_count, failed_count, outcomes,
            report, classifier, video, workdir, extension, slack>>

\* a second passes; the seconds in which no invocation starts are left out
Tick ==
    /\ clock < MaxClock
    /\ \E p \in Runs : run[p].pc # "off" /\ run[p].timestamp = clock
    /\ clock' = clock + 1
    /\ UNCHANGED <<topic, FAILED_MSG_LOG, placed, published, run, tmp, dest>>
    /\ UNCHANGED single

\* a request for a video is published, for the first time or once more;
\* the videos are numbered in the order of their first requests
PublishVideo ==
    /\ published < MaxJobs
    /\ \E v \in (IF published = 0 THEN {1} ELSE Videos) :
           topic' = Append(topic, VideoRequest(v))
    /\ published' = published + 1
    /\ UNCHANGED <<FAILED_MSG_LOG, placed, clock, run, tmp, dest>>
    /\ UNCHANGED single

\* lines 15-16: cron or a user starts the script; there is no lock. The
\* invocations are numbered in the order of their starts.
RunStart ==
    /\ \E p \in Runs :
        /\ run[p].pc = "off"
        /\ \A q \in 1..(p - 1) : run[q].pc # "off"
        /\ run' = [q \in Runs |->
                       IF q = p
                       THEN [run[p] EXCEPT !.pc = "poll", !.timestamp = clock,
                                           !.overlapped = \E o \in Runs :
                                               run[o].pc \notin {"off", "exited"}]
                       ELSE IF run[q].pc \in {"off", "exited"}
                            THEN run[q]
                            ELSE [run[q] EXCEPT !.overlapped = TRUE]]
    /\ UNCHANGED <<topic, FAILED_MSG_LOG, placed, published, clock, tmp, dest>>
    /\ UNCHANGED single

\* lines 27-32
RunPollEmpty ==
    /\ \E p \in Runs :
        /\ run[p].pc = "poll"
        /\ topic = <<>>
        /\ run' = [run EXCEPT ![p] = Exited(@)]
    /\ UNCHANGED <<topic, FAILED_MSG_LOG, placed, published, clock, tmp, dest>>
    /\ UNCHANGED single

\* lines 27-35
RunPoll ==
    /\ \E p \in Runs :
        /\ run[p].pc = "poll"
        /\ topic # <<>>
        /\ run' = [run EXCEPT ![p].pc = "loop", ![p].batch = topic]
        /\ tmp' = Mkdir(tmp, run[p].timestamp)
    /\ topic' = SessionAfterPoll(topic)
    /\ UNCHANGED <<FAILED_MSG_LOG, placed, published, clock, dest>>
    /\ UNCHANGED single

\* lines 100-107: yt-dlp starts to write the streams of the video in
\* "$TMPDIR", going on from what is there of them (-c)
RunDownloadStart ==
    /\ \E p \in Runs :
        /\ run[p].pc = "loop"
        /\ run[p].batch # <<>>
        /\ LET m == Head(run[p].batch)
               dir == run[p].timestamp
           IN  /\ run' = [run EXCEPT ![p].pc = "download",
                                     ![p].resumed = HasPart(tmp, dir, m.MP4URL[2])]
               /\ tmp' = Write(tmp, dir, FileOf(m.MP4URL, TRUE, p))
    /\ UNCHANGED <<topic, FAILED_MSG_LOG, placed, published, clock, dest>>
    /\ UNCHANGED single

\* lines 110-127: yt-dlp exits with an error; what it wrote stays
RunDownloadFailed ==
    /\ \E p \in Runs :
        /\ run[p].pc = "download"
        /\ LET m == Head(run[p].batch)
               RETRY == NextRetry(JqRetry(m))
           IN  /\ IF Resend(RETRY)
                  THEN /\ topic' = Append(topic, WithRetry(m, RETRY))
                       /\ UNCHANGED FAILED_MSG_LOG
                  ELSE /\ FAILED_MSG_LOG' = Append(FAILED_MSG_LOG, DeadLetterLine(m))
                       /\ UNCHANGED topic
               /\ run' = [run EXCEPT ![p].pc = "loop", ![p].batch = Tail(@),
                                     ![p].resumed = FALSE]
    /\ UNCHANGED <<placed, published, clock, tmp, dest>>
    /\ UNCHANGED single

\* lines 100-110: yt-dlp merges the streams into the file of the video and
\* exits 0; it cannot when the streams have been removed meanwhile
RunDownloaded ==
    /\ \E p \in Runs :
        /\ run[p].pc = "download"
        /\ LET m == Head(run[p].batch)
               dir == run[p].timestamp
           IN  /\ HasPart(tmp, dir, m.MP4URL[2])
               /\ tmp' = Write(tmp, dir, FileOf(m.MP4URL, FALSE, p))
        /\ run' = [run EXCEPT ![p].pc = "find", ![p].resumed = FALSE]
    /\ UNCHANGED <<topic, FAILED_MSG_LOG, placed, published, clock, dest>>
    /\ UNCHANGED single

\* lines 130-133
RunFindFile ==
    /\ \E p \in Runs :
        /\ run[p].pc = "find"
        /\ run' = [run EXCEPT ![p].pc = "move",
                              ![p].FILE = MostRecent(tmp, run[p].timestamp)]
    /\ UNCHANGED <<topic, FAILED_MSG_LOG, placed, published, clock, tmp, dest>>
    /\ UNCHANGED single

\* lines 173-190: mv moves the file when it is still there; with an empty
\* FILE the source is "$TMPDIR/" itself, an empty directory, and no file is
\* placed
RunMove ==
    /\ \E p \in Runs :
        /\ run[p].pc = "move"
        /\ LET m == Head(run[p].batch)
               dir == run[p].timestamp
               FILE == run[p].FILE
               there == FILE # <<>> /\ \E i \in 1..Len(Files(tmp, dir)) :
                                          Files(tmp, dir)[i] = FILE[1]
           IN  IF there
               THEN /\ dest' = Mv(dest, DestOf(m, FILE[1]), [FILE[1] EXCEPT !.by = p])
                    /\ tmp' = [tmp EXCEPT ![dir] =
                                  SelectSeq(@, LAMBDA f : f # FILE[1])]
                    /\ placed' = Append(placed, FILE[1].video)
               ELSE /\ tmp' = IF FILE = <<>> THEN RmRf(tmp, dir) ELSE tmp
                    /\ UNCHANGED <<dest, placed>>
        /\ run' = [run EXCEPT ![p].pc = "loop", ![p].batch = Tail(@),
                              ![p].FILE = <<>>]
    /\ UNCHANGED <<topic, FAILED_MSG_LOG, published, clock>>
    /\ UNCHANGED single

\* lines 194-216: rm -rf "$TMPDIR", then the report
RunFinish ==
    /\ \E p \in Runs :
        /\ run[p].pc = "loop"
        /\ run[p].batch = <<>>
        /\ tmp' = RmRf(tmp, run[p].timestamp)
        /\ run' = [run EXCEPT ![p] = Exited(@)]
    /\ UNCHANGED <<topic, FAILED_MSG_LOG, placed, published, clock, dest>>
    /\ UNCHANGED single

RunNext ==
    \/ Tick
    \/ PublishVideo
    \/ RunStart
    \/ RunPollEmpty
    \/ RunPoll
    \/ RunDownloadStart
    \/ RunDownloadFailed
    \/ RunDownloaded
    \/ RunFindFile
    \/ RunMove
    \/ RunFinish

\* invocations of the script started at any time, by cron or by hand
RunSpec == RunInit /\ [][RunNext]_vars

\* ------------------- the extension: Ollama processing, then the publish
\* a JavaScript value that is not defined
Undefined == "<undefined>"

PageUrls == {"url1", "url2"}

\* request.data of action sendMqttMessage: the popup with the override and
\* configuration fields sends {extract, config}, the url being
\* extract.url; the plain popup sends the data of the content script with
\* url at the top. extract stands for extract.url, undefined when there is
\* no extract.
PopupData ==
    {[extract |-> u, url |-> Undefined] : u \in PageUrls}
        \cup {[extract |-> Undefined, url |-> u] : u \in PageUrls}

\* the page the request is about
OriginalUrl(videoData) ==
    IF videoData.extract = Undefined THEN videoData.url ELSE videoData.extract

\* ways the Ollama request fails: fetch rejects (network), a response that
\* is not ok (403 CORS, 404 model, 500, other), a body without the response
\* field
OllamaErrors == {"fetch", "403", "404", "500", "noresponse"}

\* objects the model answers with, as parsed from ollamaResult.response
ModelAnswers(videoData) ==
    {[LNG |-> "Hindi", ACT |-> "Actor", MP4URL |-> OriginalUrl(videoData),
      RES |-> "1080", TYPE |-> "SONG"],
     [LNG |-> "Hindi", ACT |-> "Actor", MP4URL |-> OriginalUrl(videoData),
      RES |-> "1080", TYPE |-> Undefined],
     [LNG |-> "Hindi", ACT |-> Undefined, MP4URL |-> Undefined,
      RES |-> Undefined, TYPE |-> Undefined]}

\* a || b
Or(a, b) == IF a = Undefined THEN b ELSE a

FallbackDataOfDoc(videoData) ==
    [LNG |-> "en", ACT |-> "Unknown", MP4URL |-> OriginalUrl(videoData),
     RES |-> "1080", TYPE |-> Undefined]

\* fallbackData of the catch block, and extractedData of the inner catch;
\* neither has a TYPE
FallbackData(videoData) ==
    [LNG |-> "English", ACT |-> "Unknown", MP4URL |-> videoData.url,
     RES |-> "1080", TYPE |-> Undefined]

\* extractedData after the missing keys are filled in; ACT goes through a
\* template literal
StructuredData(videoData, extractedData) ==
    [LNG |-> Or(extractedData.LNG, "English"),
     ACT |-> Or(extractedData.ACT, "Unknown"),
     MP4URL |-> Or(extractedData.MP4URL, videoData.url),
     RES |-> Or(extractedData.RES, "1080"),
     TYPE |-> extractedData.TYPE]

\* JSON.stringify(data): a key whose value is undefined is left out
Stringify(id, data) ==
    Json(id, [i \in 1..4 |->
                 LET v == <<data.LNG, data.ACT, data.RES, data.MP4URL>>[i]
                 IN  IF v = Undefined THEN Absent ELSE v], NoRetry)
        @@ ("TYPE" :> IF data.TYPE = Undefined THEN Absent ELSE data.TYPE)

\* the keys of a payload
PayloadKeys(m) ==
    {k \in {"LNG", "ACT", "MP4URL", "RES", "TYPE"} : m[k] # Absent}

\* what the background script of the extension leaves alone, the topic
\* apart
downloader == <<messages, stdin, pc, count, retry_count, failed_count,
                FAILED_MSG_LOG, placed, outcomes, report, classifier, video,
                workdir, clock, run, tmp, dest, slack>>

\* the popup sends action sendMqttMessage
SendMqttMessage ==
    /\ extension.at = "idle"
    /\ published < MaxJobs
    /\ \E videoData \in PopupData :
          extension' = [at |-> "ollama", videoData |-> videoData]
    /\ UNCHANGED <<topic, published>>
    /\ UNCHANGED downloader

\* processVideoDataWithOllama throws inside its try: building the prompt
\* from an undefined extract, or one of the Ollama errors
OllamaFails ==
    /\ extension.at = "ollama"
    /\ \E error \in OllamaErrors \cup {"prompt"} :
          /\ error = "prompt" <=> extension.videoData.extract = Undefined
          /\ extension' = [at |-> "send", videoData |-> extension.videoData,
                           enhancedData |-> FallbackData(extension.videoData),
                           ollama |-> error]
    /\ UNCHANGED <<topic, published>>
    /\ UNCHANGED downloader

\* the response field is not JSON: the defaults of the inner catch
OllamaUnparsable ==
    /\ extension.at = "ollama"
    /\ extension.videoData.extract # Undefined
    /\ extension' = [at |-> "send", videoData |-> extension.videoData,
                     enhancedData |->
                         StructuredData(extension.videoData,
                                        FallbackData(extension.videoData)),
                     ollama |-> "unparsable"]
    /\ UNCHANGED <<topic, published>>
    /\ UNCHANGED downloader

\* the model answers with a JSON object
OllamaResponds ==
    /\ extension.at = "ollama"
    /\ extension.videoData.extract # Undefined
    /\ \E extractedData \in ModelAnswers(extension.videoData) :
          extension' = [at |-> "send", videoData |-> extension.videoData,
                        enhancedData |->
                            StructuredData(extension.videoData, extractedData),
                        ollama |-> "ok"]
    /\ UNCHANGED <<topic, published>>
    /\ UNCHANGED downloader

\* sendMqttMessage(enhancedData): connect, client.send at QoS 1
MqttSend ==
    /\ extension.at = "send"
    /\ topic' = Append(topic, Stringify(published + 1, extension.enhancedData))
    /\ published' = published + 1
    /\ extension' = [at |-> "sent", videoData |-> extension.videoData,
                     ollama |-> extension.ollama]
    /\ UNCHANGED downloader

\* the connection to the broker fails: the promise is rejected
MqttFailure ==
    /\ extension.at = "send"
    /\ extension' = NoRequest
    /\ UNCHANGED <<topic, published>>
    /\ UNCHANGED downloader

\* sendResponse
Responded ==
    /\ extension.at = "sent"
    /\ extension' = NoRequest
    /\ UNCHANGED <<topic, published>>
    /\ UNCHANGED downloader

ExtensionNext ==
    \/ SendMqttMessage
    \/ OllamaFails
    \/ OllamaUnparsable
    \/ OllamaResponds
    \/ MqttSend
    \/ MqttFailure
    \/ Responded

\* requests of the popup handled by the background script
ExtensionSpec == Init /\ [][ExtensionNext]_vars

\* --------- one batch of downloadMqtt.sh, the steps after the download
\* the batches polled: requests for the videos, in any order
StepBatches ==
    UNION {[1..n -> {VideoRequest(v) : v \in Videos}] : n \in 1..MaxJobs}

\* how ffmpeg -metadata (lines 131-132), the probe (line 135) and mv
\* (line 179) end
StepResults == {"ok", "failed"}

StepInit ==
    /\ topic = <<>>
    /\ messages = <<>>
    /\ stdin = <<>>
    /\ pc = "idle"
    /\ count = 0
    /\ retry_count = 0
    /\ failed_count = 0
    /\ FAILED_MSG_LOG = <<>>
    /\ placed = <<>>
    /\ outcomes = <<>>
    /\ published = 0
    /\ report = NoReport
    /\ classifier = NoPlacement
    /\ video = NoEntry
    /\ workdir = "absent"
    /\ clock = 0
    /\ \E batch \in StepBatches :
          run = [pc |-> "loop", timestamp |-> 0, batch |-> batch, FILE |-> <<>>,
                 rewrite |-> "", probe |-> ""]
    /\ tmp = Mkdir(<<>>, 0)
    /\ dest = <<>>
    /\ extension = NoRequest
    /\ slack = "up"

\* what the steps of this part leave alone
steps == <<messages, stdin, pc, published, placed, report, classifier, video,
           workdir, clock, extension, slack>>

\* lines 181-190: the entry appended to summary and counted, with how the
\* steps of the job ended and whether a file is at DEST at that time
Success(m, DEST, tree, steps_) ==
    [msg |-> m, DEST |-> DEST, present |-> DEST \in DOMAIN tree,
     rewrite |-> steps_[1], probe |-> steps_[2], mv |-> steps_[3]]

\* lines 100-127: yt-dlp exits with an error, leaving what it wrote or
\* nothing
StepDownloadFailed ==
    /\ run.pc = "loop"
    /\ run.batch # <<>>
    /\ LET m == Head(run.batch)
           RETRY == NextRetry(JqRetry(m))
       IN  /\ IF Resend(RETRY)
              THEN /\ topic' = Append(topic, WithRetry(m, RETRY))
                   /\ retry_count' = retry_count + 1
                   /\ UNCHANGED <<FAILED_MSG_LOG, failed_count>>
              ELSE /\ FAILED_MSG_LOG' = Append(FAILED_MSG_LOG, DeadLetterLine(m))
                   /\ failed_count' = failed_count + 1
                   /\ UNCHANGED <<topic, retry_count>>
           /\ \E left \in BOOLEAN :
                 tmp' = IF left THEN Write(tmp, run.timestamp, FileOf(m.MP4URL, TRUE, 1))
                        ELSE tmp
    /\ run' = [run EXCEPT !.batch = Tail(@)]
    /\ UNCHANGED <<count, outcomes, dest>>
    /\ UNCHANGED steps

\* lines 100-110: yt-dlp exits 0 and the file of the video is written
StepDownloaded ==
    /\ run.pc = "loop"
    /\ run.batch # <<>>
    /\ tmp' = Write(tmp, run.timestamp, FileOf(Head(run.batch).MP4URL, FALSE, 1))
    /\ run' = [run EXCEPT !.pc = "find"]
    /\ UNCHANGED <<topic, FAILED_MSG_LOG, count, retry_count, failed_count,
                   outcomes, dest>>
    /\ UNCHANGED steps

\* lines 130-135: the most recent file, ffmpeg -metadata with mv over FILE,
\* and the probe; no exit status is looked at. A rewrite that fails leaves
\* FILE as it was.
StepRewriteAndProbe ==
    /\ run.pc = "find"
    /\ \E rewrite \in StepResults, probe \in StepResults :
          run' = [run EXCEPT !.pc = "move",
                             !.FILE = MostRecent(tmp, run.timestamp),
                             !.rewrite = rewrite, !.probe = probe]
    /\ UNCHANGED <<topic, FAILED_MSG_LOG, count, retry_count, failed_count,
                   outcomes, tmp, dest>>
    /\ UNCHANGED steps

\* lines 173-190: mkdir -p, mv, which may fail, then the entry of summary
\* and count, whatever happened
StepMove ==
    /\ run.pc = "move"
    /\ run.FILE # <<>>
    /\ LET m == Head(run.batch)
           path == DestOf(m, run.FILE[1])
       IN  /\ \E mv \in StepResults :
                 /\ IF mv = "ok"
                    THEN /\ dest' = Mv(dest, path, run.FILE[1])
                         /\ tmp' = [tmp EXCEPT ![run.timestamp] =
                                       SelectSeq(@, LAMBDA f : f # run.FILE[1])]
                    ELSE UNCHANGED <<dest, tmp>>
                 /\ outcomes' = Append(outcomes,
                                       Success(m, path, dest',
                                               <<run.rewrite, run.probe, mv>>))
           /\ count' = count + 1
    /\ run' = [run EXCEPT !.pc = "loop", !.batch = Tail(@), !.FILE = <<>>,
                          !.rewrite = "", !.probe = ""]
    /\ UNCHANGED <<topic, FAILED_MSG_LOG, retry_count, failed_count>>
    /\ UNCHANGED steps

\* lines 194-216
StepFinish ==
    /\ run.pc = "loop"
    /\ run.batch = <<>>
    /\ tmp' = RmRf(tmp, run.timestamp)
    /\ run' = [run EXCEPT !.pc = "exited"]
    /\ UNCHANGED <<topic, FAILED_MSG_LOG, count, retry_count, failed_count,
                   outcomes, dest>>
    /\ UNCHANGED steps

StepNext ==
    \/ StepDownloadFailed
    \/ StepDownloaded
    \/ StepRewriteAndProbe
    \/ StepMove
    \/ StepFinish

\* one invocation of the script with a batch polled, step by step
StepSpec == StepInit /\ [][StepNext]_vars

\* ------------- one run of the file-driven downloader, its files and moves
lockFile == "video.lock"

downloadFile == "videos.txt"

downloadFileTmp == "videos.txt.tmp"

\* "./Videos/$TIMESTAMP" of the run
OUTPUT_DIR == "Videos"

\* an entry of videos.txt: the video of its url, NoUrl for a line whose
\* first field is empty
NoUrl == 0

ListEntries == Videos \cup {NoUrl}

\* the contents videos.txt may have
DownloadLists == UNION {[1..n -> ListEntries] : n \in 1..MaxJobs}

\* the files and directories of the current directory before a run: the
\* lock of another run or a stale one, the list, a replacement list
ListFiles ==
    {[f \in names |-> IF f = downloadFile THEN list ELSE <<>>] :
        names \in SUBSET {lockFile, downloadFile, downloadFileTmp},
        list \in DownloadLists}

\* what a run of yt-dlp leaves in the output directory: the merged file
\* of the video, or on an error the streams it had started, or nothing
YtDlpFiles(v) ==
    {<<[video |-> v, kind |-> "merged"]>>,
     <<>>,
     <<[video |-> v, kind |-> "video.part"]>>,
     <<[video |-> v, kind |-> "audio.part"], [video |-> v, kind |-> "video.part"]>>}

\* the directory after files were written: each is the most recent one
RECURSIVE Put(_, _)
Put(files, new) ==
    IF new = <<>> THEN files
    ELSE Put(Append(SelectSeq(files, LAMBDA f : f # Head(new)), Head(new)),
             Tail(new))

LockedAlways(DRY_RUN, fs) == lockFile \in DOMAIN fs

\* [ -f $lockFile ] && [ "$DRY_RUN" = false ]
Locked(DRY_RUN, fs) == lockFile \in DOMAIN fs /\ ~DRY_RUN

\* FINAL_DESTINATION of an entry, by its video
FINAL_DESTINATION(entry) == <<"store", entry>>

ListInit ==
    /\ topic = <<>>
    /\ messages = <<>>
    /\ stdin = <<>>
    /\ pc = "idle"
    /\ count = 0
    /\ retry_count = 0
    /\ failed_count = 0
    /\ FAILED_MSG_LOG = <<>>
    /\ placed = <<>>
    /\ outcomes = <<>>
    /\ published = 0
    /\ report = NoReport
    /\ classifier = NoPlacement
    /\ video = NoEntry
    /\ workdir = "absent"
    /\ clock = 0
    /\ \E DRY_RUN \in BOOLEAN :
          run = [pc |-> "start", DRY_RUN |-> DRY_RUN, entries |-> <<>>,
                 FILENAME |-> <<>>, ran |-> <<>>]
    /\ tmp \in ListFiles
    /\ dest = <<>>
    /\ extension = NoRequest
    /\ slack = "up"

\* what the run leaves alone
listrest == <<topic, messages, stdin, pc, count, retry_count, failed_count,
              FAILED_MSG_LOG, placed, outcomes, published, report, classifier,
              video, workdir, clock, extension, slack>>

\* lines 29-34
ListStart ==
    /\ run.pc = "start"
    /\ run' = [run EXCEPT !.pc = IF Locked(run.DRY_RUN, tmp)
                                 THEN "locked" ELSE "open"]
    /\ UNCHANGED <<tmp, dest>>
    /\ UNCHANGED listrest

\* lines 38-49 and 254-256
ListOpen ==
    /\ run.pc = "open"
    /\ IF downloadFile \in DOMAIN tmp
       THEN /\ run' = [run EXCEPT !.pc = "loop", !.entries = tmp[downloadFile]]
            /\ tmp' = IF run.DRY_RUN THEN tmp
                      ELSE Mkdir(Mkdir(tmp, lockFile), OUTPUT_DIR)
       ELSE /\ run' = [run EXCEPT !.pc = "exited"]
            /\ UNCHANGED tmp
    /\ UNCHANGED dest
    /\ UNCHANGED listrest

\* line 107: an entry without url
ListSkip ==
    /\ run.pc = "loop"
    /\ run.entries # <<>>
    /\ Head(run.entries) = NoUrl
    /\ run' = [run EXCEPT !.entries = Tail(@)]
    /\ UNCHANGED <<tmp, dest>>
    /\ UNCHANGED listrest

\* lines 107-191: the listing, the download, whose exit status is not
\* looked at, and the most recent file of the output directory
ListDownload ==
    /\ run.pc = "loop"
    /\ run.entries # <<>>
    /\ Head(run.entries) # NoUrl
    /\ IF run.DRY_RUN
       THEN /\ run' = [run EXCEPT !.pc = "move",
                                  !.FILENAME = <<"example_video_name.mp4">>]
            /\ UNCHANGED tmp
       ELSE \E new \in YtDlpFiles(Head(run.entries)) :
               /\ tmp' = [Mkdir(tmp, OUTPUT_DIR) EXCEPT ![OUTPUT_DIR] = Put(@, new)]
               /\ run' = [run EXCEPT !.pc = "move",
                                     !.FILENAME = MostRecent(tmp', OUTPUT_DIR),
                                     !.ran = run.ran \o <<"-F", "-f">>]
    /\ UNCHANGED dest
    /\ UNCHANGED listrest

\* lines 193-237: with an empty FILENAME the source of mv is the output
\* directory itself, which is empty
ListMove ==
    /\ run.pc = "move"
    /\ IF run.DRY_RUN
       THEN UNCHANGED <<tmp, dest>>
       ELSE IF run.FILENAME = <<>>
            THEN /\ tmp' = RmRf(tmp, OUTPUT_DIR)
                 /\ UNCHANGED dest
            ELSE /\ dest' = Mv(dest, <<FINAL_DESTINATION(Head(run.entries)),
                                       run.FILENAME[1]>>, run.FILENAME[1])
                 /\ tmp' = [tmp EXCEPT ![OUTPUT_DIR] =
                               SelectSeq(@, LAMBDA f : f # run.FILENAME[1])]
    /\ run' = [run EXCEPT !.pc = "loop", !.entries = Tail(@), !.FILENAME = <<>>]
    /\ UNCHANGED listrest

\* lines 238-258
ListFinish ==
    /\ run.pc = "loop"
    /\ run.entries = <<>>
    /\ tmp' = IF run.DRY_RUN THEN tmp
              ELSE LET fs == RmRf(RmRf(tmp, OUTPUT_DIR), lockFile)
                   IN  IF downloadFileTmp \in DOMAIN fs
                       THEN [f \in DOMAIN fs \ {downloadFileTmp} |->
                                IF f = downloadFile THEN fs[downloadFileTmp]
                                ELSE fs[f]]
                       ELSE fs
    /\ run' = [run EXCEPT !.pc = "exited"]
    /\ UNCHANGED dest
    /\ UNCHANGED listrest

ListNext ==
    \/ ListStart
    \/ ListOpen
    \/ ListSkip
    \/ ListDownload
    \/ ListMove
    \/ ListFinish

\* one run of the file-driven downloader, with or without --dry-run
ListSpec == ListInit /\ [][ListNext]_vars

\* ------------------------------------------- the legacy pipeline variants
\* src/downloadMqtt.sh lines 217-345 and 346-436: the loop over the batch is
\* the last command of a pipeline (echo "$messages" | while read ...), which
\* bash runs in a subshell: the loop works on its own copies of summary and
\* count, and the shell that sends the notification keeps its own.

\* the messages of a legacy batch: a request for a video, or a message with
\* an empty LNG, which lines 264-267 skip
LegacyMessages ==
    {VideoRequest(v) : v \in Videos}
    \cup {Json(v, <<"", "Actor", "1080", <<"url", v>>>>, NoRetry) : v \in Videos}

LegacyBatches == UNION {[1..n -> LegacyMessages] : n \in 0..MaxJobs}

\* lines 229-251 (375-376): the session holds the messages published so far;
\* summary and count are set before the pipeline starts
LegacyInit ==
    /\ \E batch \in LegacyBatches : topic = batch
    /\ messages = <<>>
    /\ stdin = <<>>
    /\ pc = "idle"
    /\ count = 0
    /\ retry_count = 0
    /\ failed_count = 0
    /\ FAILED_MSG_LOG = <<>>
    /\ placed = <<>>
    /\ outcomes = <<>>
    /\ published = 0
    /\ report = NoReport
    /\ classifier = NoPlacement
    /\ video = NoEntry
    /\ workdir = "absent"
    /\ clock = 0
    /\ run = [pc |-> "poll", count |-> 0, summary |-> <<>>]
    /\ tmp = <<>>
    /\ dest = <<>>
    /\ extension = NoRequest
    /\ slack = "up"

legacyrest == <<pc, retry_count, failed_count, FAILED_MSG_LOG, outcomes,
                published, classifier, video, workdir, clock, tmp, dest,
                extension, slack>>

\* lines 240-245: the poll returned nothing, exit 0
LegacyNoMessages ==
    /\ run.pc = "poll"
    /\ topic = <<>>
    /\ run' = [run EXCEPT !.pc = "done"]
    /\ report' = EmptyBatchExit
    /\ UNCHANGED <<topic, messages, stdin, count, placed>>
    /\ UNCHANGED legacyrest

\* lines 240, 249-254: the batch is read, summary and count are set in the
\* shell of the script, and the pipeline forks the subshell of the loop with
\* copies of both
LegacyPoll ==
    /\ run.pc = "poll"
    /\ topic # <<>>
    /\ messages' = topic
    /\ stdin' = topic
    /\ topic' = <<>>
    /\ count' = 0
    /\ run' = [pc |-> "loop", count |-> 0, summary |-> <<>>]
    /\ UNCHANGED <<report, placed>>
    /\ UNCHANGED legacyrest

\* lines 264-267: a message with an empty field is skipped
LegacyInvalid ==
    /\ run.pc = "loop"
    /\ stdin # <<>>
    /\ \E k \in {"LNG", "ACT", "RES", "MP4URL"} : Head(stdin)[k] = ""
    /\ stdin' = Tail(stdin)
    /\ UNCHANGED <<topic, messages, count, run, report, placed>>
    /\ UNCHANGED legacyrest

\* lines 285-290: yt-dlp exits with an error, continue
LegacyDownloadFailed ==
    /\ run.pc = "loop"
    /\ stdin # <<>>
    /\ \A k \in {"LNG", "ACT", "RES", "MP4URL"} : Head(stdin)[k] # ""
    /\ stdin' = Tail(stdin)
    /\ UNCHANGED <<topic, messages, count, run, report, placed>>
    /\ UNCHANGED legacyrest

\* lines 285-335: the download succeeds, the file is moved, and the loop
\* appends to summary and increments count: the copies of its subshell
LegacyDownloaded ==
    /\ run.pc = "loop"
    /\ stdin # <<>>
    /\ \A k \in {"LNG", "ACT", "RES", "MP4URL"} : Head(stdin)[k] # ""
    /\ placed' = Append(placed, Head(stdin).id)
    /\ run' = [run EXCEPT !.summary = Append(@, Head(stdin).MP4URL),
                          !.count = @ + 1]
    /\ stdin' = Tail(stdin)
    /\ UNCHANGED <<topic, messages, count, report>>
    /\ UNCHANGED legacyrest

\* lines 337-345 (432-436): the pipeline ends and its subshell with it; the
\* script tests its own count and posts its own summary
LegacyNotify ==
    /\ run.pc = "loop"
    /\ stdin = <<>>
    /\ run' = [run EXCEPT !.pc = "done"]
    /\ report' = [NoReport EXCEPT
                    !.posts = IF count > 0
                              THEN <<[count |-> count, summary |-> <<>>]>>
                              ELSE <<>>,
                    !.exit = <<0>>]
    /\ UNCHANGED <<topic, messages, stdin, count, placed>>
    /\ UNCHANGED legacyrest

LegacyNext ==
    \/ LegacyNoMessages
    \/ LegacyPoll
    \/ LegacyInvalid
    \/ LegacyDownloadFailed
    \/ LegacyDownloaded
    \/ LegacyNotify

LegacySpec == LegacyInit /\ [][LegacyNext]_vars

\* ---------------------------------------------------------------- retry.sh
\* src/retry.sh: the lines of the dead-letter file are published again.
\* Here FAILED_MSG_LOG is the file as retry.sh finds it: Missing, or its
\* lines with whether the last one ends with a newline; run.rest is the
\* unread part of the file and topic the messages handed to mosquitto_pub.

\* lines 8-11: [[ ! -f "$RETRY_FILE" ]]
Missing == [exists |-> FALSE, lines |-> <<>>, newline |-> TRUE]

\* the lines of a dead-letter file: a message, a blank or an empty line
RetryLines == {"", " ", "{\"MP4URL\":\"url1\"}", "{\"MP4URL\":\"url2\"}"}

\* the files retry.sh may find: a last line without newline is not empty
RetryFiles ==
    {Missing} \cup
    {f \in [exists : {TRUE},
            lines : UNION {[1..k -> RetryLines] : k \in 0..MaxLines},
            newline : BOOLEAN] :
        f.newline \/ (f.lines # <<>> /\ f.lines[Len(f.lines)] # "")}

\* line 14, IFS= read -r new_msg: the next line of the input. read fails at
\* the end of the input, leaving in new_msg what it read before the end
Read(rest, newline) ==
    IF rest = <<>>
    THEN [ok |-> FALSE, new_msg |-> "", rest |-> <<>>]
    ELSE IF Len(rest) = 1 /\ ~newline
    THEN [ok |-> FALSE, new_msg |-> rest[1], rest |-> <<>>]
    ELSE [ok |-> TRUE, new_msg |-> Head(rest), rest |-> Tail(rest)]

\* src/unnamed/part_007 line 6: while IFS= read -r new_msg
LoopWhileRead(r) == r.ok

\* line 14: while IFS= read -r new_msg || [[ -n "$new_msg" ]]
LoopCondition(r) == r.ok \/ r.new_msg # ""

RetryInit ==
    /\ topic = <<>>
    /\ messages = <<>>
    /\ stdin = <<>>
    /\ pc = "idle"
    /\ count = 0
    /\ retry_count = 0
    /\ failed_count = 0
    /\ FAILED_MSG_LOG \in RetryFiles
    /\ placed = <<>>
    /\ outcomes = <<>>
    /\ published = 0
    /\ report = NoReport
    /\ classifier = NoPlacement
    /\ video = NoEntry
    /\ workdir = "absent"
    /\ clock = 0
    /\ run = [pc |-> "start", rest |-> <<>>]
    /\ tmp = <<>>
    /\ dest = <<>>
    /\ extension = NoRequest
    /\ slack = "up"

retryrest == <<messages, stdin, pc, count, retry_count, failed_count,
               FAILED_MSG_LOG, placed, outcomes, published, classifier,
               video, workdir, clock, tmp, dest, extension, slack>>

\* lines 8-11: the file does not exist, exit 1
RetryFileNotFound ==
    /\ run.pc = "start"
    /\ FAILED_MSG_LOG = Missing
    /\ run' = [run EXCEPT !.pc = "done"]
    /\ report' = [NoReport EXCEPT !.exit = <<1>>]
    /\ UNCHANGED topic
    /\ UNCHANGED retryrest

\* lines 13-19: the loop starts with the file as its standard input
RetryOpen ==
    /\ run.pc = "start"
    /\ FAILED_MSG_LOG # Missing
    /\ run' = [pc |-> "loop", rest |-> FAILED_MSG_LOG.lines]
    /\ UNCHANGED <<topic, report>>
    /\ UNCHANGED retryrest

\* lines 14-18: a line is read and published
RetryPublish ==
    /\ run.pc = "loop"
    /\ LET r == Read(run.rest, FAILED_MSG_LOG.newline)
       IN  /\ LoopCondition(r)
           /\ r.new_msg # ""
           /\ topic' = Append(topic, r.new_msg)
           /\ run' = [run EXCEPT !.rest = r.rest]
    /\ UNCHANGED report
    /\ UNCHANGED retryrest

\* lines 14-15: an empty line is read and passed over
RetryEmptyLine ==
    /\ run.pc = "loop"
    /\ LET r == Read(run.rest, FAILED_MSG_LOG.newline)
       IN  /\ LoopCondition(r)
           /\ r.new_msg = ""
           /\ run' = [run EXCEPT !.rest = r.rest]
    /\ UNCHANGED <<topic, report>>
    /\ UNCHANGED retryrest

\* lines 14, 19: the loop condition is false, the script ends
RetryEnd ==
    /\ run.pc = "loop"
    /\ LET r == Read(run.rest, FAILED_MSG_LOG.newline)
       IN  /\ ~LoopCondition(r)
           /\ run' = [pc |-> "done", rest |-> r.rest]
    /\ report' = [NoReport EXCEPT !.exit = <<0>>]
    /\ UNCHANGED topic
    /\ UNCHANGED retryrest

RetryNext ==
    \/ RetryFileNotFound
    \/ RetryOpen
    \/ RetryPublish
    \/ RetryEmptyLine
    \/ RetryEnd

RetrySpec == RetryInit /\ [][RetryNext]_vars

\* ------------------------------------------- the background message listener
\* src/unnamed/part_002: the library load of lines 2-124, the listener of
\* lines 459-554 and the connection of lines 556-773.  Here extension is the
\* state of the background script: its globals (Paho, pahoLoadPromise,
\* mqttBrokerHost), its pending timers, the request being handled with the
\* calls of sendResponse made for it, and the connection of that request.
\* importScripts is what a call of importScripts('mqtt.min.js') does at the
\* time: it throws, or it defines Paho with or without a client constructor.

Unconfigured == "YOUR_MQTT_BROKER_HOST"

ImportOutcomes == {"throws", "valid", "invalid"}

\* request.data.config.mqttHost: not given, a broker, or the placeholder
ConfigHosts == {Undefined, "192.168.12.111", Unconfigured}

Booting ==
    [pc |-> "boot", Paho |-> Undefined, pahoLoadPromise |-> "null",
     loadTimer |-> FALSE, imports |-> 0, mqttBrokerHost |-> "192.168.12.111",
     request |-> Undefined, responses |-> 0, response |-> Undefined,
     link |-> "none", delivered |-> FALSE]

ListenerInit ==
    /\ topic = <<>>
    /\ messages = <<>>
    /\ stdin = <<>>
    /\ pc = "idle"
    /\ count = 0
    /\ retry_count = 0
    /\ failed_count = 0
    /\ FAILED_MSG_LOG = <<>>
    /\ placed = <<>>
    /\ outcomes = <<>>
    /\ published = 0
    /\ report = NoReport
    /\ classifier = NoPlacement
    /\ video = NoEntry
    /\ workdir = "absent"
    /\ clock = 0
    /\ run = [importScripts |-> "throws"]
    /\ tmp = <<>>
    /\ dest = <<>>
    /\ extension = Booting
    /\ slack = "up"

listenerrest == <<topic, messages, stdin, pc, count, retry_count, failed_count,
                  FAILED_MSG_LOG, placed, outcomes, published, report,
                  classifier, video, workdir, clock, tmp, dest, slack>>

\* lines 6-95, ensureMqttLibraryLoaded: the promise of the first call is
\* kept in pahoLoadPromise and returned by every later call, settled or
\* not.  The first call resolves when Paho.MQTT is there (lines 18-23),
\* rejects when importScripts throws (lines 27, 83-92) and otherwise leaves
\* the promise pending with the timer of line 30 set
ensureMqttLibraryLoaded(e, importScripts) ==
    IF e.pahoLoadPromise # "null" THEN e
    ELSE IF e.Paho = "valid" THEN [e EXCEPT !.pahoLoadPromise = "resolved"]
    ELSE IF importScripts = "throws"
    THEN [e EXCEPT !.pahoLoadPromise = "rejected", !.imports = @ + 1]
    ELSE [e EXCEPT !.Paho = importScripts, !.pahoLoadPromise = "pending",
                   !.loadTimer = TRUE, !.imports = @ + 1]

\* a call of sendResponse for the request being handled
sendResponse(e, status) ==
    [e EXCEPT !.pc = "idle", !.responses = @ + 1, !.response = status]

\* lines 97-124: the load attempted when the background script starts
InitialLoad ==
    /\ extension.pc = "boot"
    /\ extension' = [ensureMqttLibraryLoaded(extension, run.importScripts)
                       EXCEPT !.pc = "idle"]
    /\ UNCHANGED run
    /\ UNCHANGED listenerrest

\* mqtt.min.js becomes available to importScripts, or stops being so
LibraryChanges ==
    /\ \E o \in ImportOutcomes \ {run.importScripts} :
          run' = [run EXCEPT !.importScripts = o]
    /\ UNCHANGED extension
    /\ UNCHANGED listenerrest

\* lines 30-81: the callback of the timer set after importScripts.  With a
\* client constructor it resolves the promise; without one it throws, in a
\* timer callback, where neither the try of line 12 nor the promise catches
\* the exception: the promise stays pending
LoadTimer ==
    /\ extension.loadTimer
    /\ extension' = [extension EXCEPT
                       !.loadTimer = FALSE,
                       !.pahoLoadPromise =
                           IF extension.Paho = "valid" THEN "resolved" ELSE @]
    /\ UNCHANGED run
    /\ UNCHANGED listenerrest

\* lines 441-455, 466-469: a config of the request replaces the broker host
setConfig(e, mqttHost) ==
    IF mqttHost # Undefined THEN [e EXCEPT !.mqttBrokerHost = mqttHost] ELSE e

\* the listener is called with a request: the calls of sendResponse of the
\* request before are history
onMessage(e, action, mqttHost) ==
    [setConfig(e, mqttHost) EXCEPT !.request = action, !.responses = 0,
                                   !.response = Undefined, !.link = "none",
                                   !.delivered = FALSE]

\* lines 471-519: a sendMqttMessage request.  With the placeholder host it is
\* answered at once; otherwise the chain starts with ensureMqttLibraryLoaded
ReceiveSendMqttMessage ==
    /\ extension.pc = "idle"
    /\ \E mqttHost \in ConfigHosts :
          LET e == onMessage(extension, "sendMqttMessage", mqttHost)
          IN  extension' =
                 IF e.mqttBrokerHost = Unconfigured
                 THEN sendResponse(e, "failure")
                 ELSE [ensureMqttLibraryLoaded(e, run.importScripts)
                         EXCEPT !.pc = "loading"]
    /\ UNCHANGED run
    /\ UNCHANGED listenerrest

\* lines 520-537: getBrokerInfo is answered at once
ReceiveGetBrokerInfo ==
    /\ extension.pc = "idle"
    /\ \E mqttHost \in ConfigHosts :
          extension' = sendResponse(onMessage(extension, "getBrokerInfo", mqttHost),
                                    "success")
    /\ UNCHANGED run
    /\ UNCHANGED listenerrest

\* lines 538-542: any other action is answered at once
ReceiveUnknownAction ==
    /\ extension.pc = "idle"
    /\ \E mqttHost \in ConfigHosts :
          extension' = sendResponse(onMessage(extension, "other", mqttHost),
                                    "failure")
    /\ UNCHANGED run
    /\ UNCHANGED listenerrest

\* lines 489, 504-516: the promise of the library is rejected, the catch of
\* the chain answers
LoadRejected ==
    /\ extension.pc = "loading"
    /\ extension.pahoLoadPromise = "rejected"
    /\ extension' = sendResponse(extension, "failure")
    /\ UNCHANGED run
    /\ UNCHANGED listenerrest

\* lines 489-496, 556-590, 744: the promise of the library is resolved;
\* processVideoDataWithOllama resolves with the model's data or the
\* fallback data, and sendMqttMessage starts the connection
Connect ==
    /\ extension.pc = "loading"
    /\ extension.pahoLoadPromise = "resolved"
    /\ extension' = [extension EXCEPT !.pc = "connecting"]
    /\ UNCHANGED run
    /\ UNCHANGED listenerrest

\* lines 703-738 and 504-516: onFailure rejects, the catch of the chain
\* answers
ConnectFailure ==
    /\ extension.pc = "connecting"
    /\ extension' = sendResponse(extension, "failure")
    /\ UNCHANGED run
    /\ UNCHANGED listenerrest

\* lines 627-701: onSuccess.  client.send hands the QoS 1 message to the
\* client and the timer of 1500 ms is set (lines 661-687), or client.send
\* throws and the promise is rejected (lines 689-701)
ConnectSuccess ==
    /\ extension.pc = "connecting"
    /\ \E thrown \in BOOLEAN :
          extension' = IF thrown THEN sendResponse(extension, "failure")
                       ELSE [extension EXCEPT !.pc = "sent", !.link = "connected"]
    /\ UNCHANGED run
    /\ UNCHANGED listenerrest

\* lines 611-613: the broker acknowledges the message, onMessageDelivered
\* writes to the console
MessageDelivered ==
    /\ extension.pc = "sent"
    /\ extension.link = "connected"
    /\ ~extension.delivered
    /\ extension' = [extension EXCEPT !.delivered = TRUE]
    /\ UNCHANGED run
    /\ UNCHANGED listenerrest

\* lines 598-605: the connection is lost, onConnectionLost writes to the
\* console
ConnectionLost ==
    /\ extension.pc = "sent"
    /\ extension.link = "connected"
    /\ extension' = [extension EXCEPT !.link = "lost"]
    /\ UNCHANGED run
    /\ UNCHANGED listenerrest

\* lines 671-687 and 495-503: the timer of 1500 ms disconnects a client
\* that is connected and resolves; the chain answers success
SendTimer ==
    /\ extension.pc = "sent"
    /\ extension' = sendResponse([extension EXCEPT !.link = "none"], "success")
    /\ UNCHANGED run
    /\ UNCHANGED listenerrest

ListenerNext ==
    \/ InitialLoad
    \/ LibraryChanges
    \/ LoadTimer
    \/ ReceiveSendMqttMessage
    \/ ReceiveGetBrokerInfo
    \/ ReceiveUnknownAction
    \/ LoadRejected
    \/ Connect
    \/ ConnectFailure
    \/ ConnectSuccess
    \/ MessageDelivered
    \/ ConnectionLost
    \/ SendTimer

ListenerSpec == ListenerInit /\ [][ListenerNext]_vars

\* the browser runs the script, every timer that is set fires, a promise
\* that is settled runs its handlers and the client calls one of the
\* callbacks of connect
ListenerLive ==
    /\ ListenerSpec
    /\ WF_vars(InitialLoad)
    /\ WF_vars(LoadTimer)
    /\ WF_vars(LoadRejected)
    /\ WF_vars(Connect)
    /\ WF_vars(ConnectFailure \/ ConnectSuccess)
    /\ WF_vars(SendTimer)

\* ------------------------------------------------------ the three-step popup
\* src/unnamed/part_001: Extract, Process and Send.  Here extension is the
\* state of the popup: its variables extractedVideoData and processedAIData
\* (the video the data is of, or Undefined for null), the two text boxes,
\* the disabled flags of the buttons, the requests sent to the background
\* script that are not answered yet (ai, mqtt) and the timer of line 238.
\* processed tells whether processedAIData comes from a processWithAI
\* request made for the latest extraction; it is not a variable of the
\* code.  run.tab is the page of the active tab.

NotYoutube == "about:blank"

\* line 43: pages whose url includes "youtube.com/watch"
WatchPages == {"youtube.com/watch?v=1", "youtube.com/watch?v=2"}

Tabs == WatchPages \cup {NotYoutube}

\* the markup with the initial state of the buttons is not part of the
\* source: they start enabled or disabled
PopupOpened ==
    {[extractedVideoData |-> Undefined, processedAIData |-> Undefined,
      extractedDataDiv |-> Undefined, finalJsonBox |-> Undefined,
      processButton |-> [disabled |-> p], sendButton |-> [disabled |-> s],
      ai |-> Undefined, current |-> FALSE, mqtt |-> Undefined,
      timer |-> FALSE, processed |-> FALSE] : p, s \in BOOLEAN}

PopupInit ==
    /\ topic = <<>>
    /\ messages = <<>>
    /\ stdin = <<>>
    /\ pc = "idle"
    /\ count = 0
    /\ retry_count = 0
    /\ failed_count = 0
    /\ FAILED_MSG_LOG = <<>>
    /\ placed = <<>>
    /\ outcomes = <<>>
    /\ published = 0
    /\ report = NoReport
    /\ classifier = NoPlacement
    /\ video = NoEntry
    /\ workdir = "absent"
    /\ clock = 0
    /\ run \in [tab : Tabs]
    /\ tmp = <<>>
    /\ dest = <<>>
    /\ extension \in PopupOpened
    /\ slack = "up"

\* the user opens another page in the active tab
Navigate ==
    /\ \E tab \in (Tabs) \ {run.tab} : run' = [tab |-> tab]
    /\ UNCHANGED extension
    /\ UNCHANGED listenerrest

\* lines 27-47, 58-64, 87-92: Extract on a page that is not a video, or the
\* content script does not answer success: the box of the extracted data is
\* emptied
ExtractFailed ==
    /\ extension' = [extension EXCEPT !.extractedDataDiv = Undefined]
    /\ UNCHANGED run
    /\ UNCHANGED listenerrest

\* lines 27-86: Extract on a video page, the content script answers with the
\* data of the page; the Process button is enabled
ExtractSucceeded ==
    /\ run.tab \in WatchPages
    /\ extension' = [extension EXCEPT !.extractedVideoData = run.tab,
                                      !.extractedDataDiv = run.tab,
                                      !.processButton.disabled = FALSE,
                                      !.current = FALSE,
                                      !.processed = FALSE]
    /\ UNCHANGED run
    /\ UNCHANGED listenerrest

\* lines 98-147: Process.  Without extracted data the handler returns;
\* otherwise processWithAI is sent with the extracted data
ProcessClick ==
    /\ ~extension.processButton.disabled
    /\ extension.ai = Undefined
    /\ extension' = IF extension.extractedVideoData = Undefined
                    THEN [extension EXCEPT !.finalJsonBox = @]
                    ELSE [extension EXCEPT !.ai = extension.extractedVideoData,
                                           !.current = TRUE]
    /\ UNCHANGED run
    /\ UNCHANGED listenerrest

\* lines 147-172: the answer to processWithAI.  On success the processed
\* data is stored and shown and the Send button is enabled
ProcessAnswered ==
    /\ extension.ai # Undefined
    /\ \E status \in {"success", "failure"} :
          extension' =
             IF status = "success"
             THEN [extension EXCEPT !.processedAIData = extension.ai,
                                    !.finalJsonBox = extension.ai,
                                    !.sendButton.disabled = FALSE,
                                    !.processed = extension.current,
                                    !.ai = Undefined]
             ELSE [extension EXCEPT !.ai = Undefined]
    /\ UNCHANGED run
    /\ UNCHANGED listenerrest

\* lines 176-222: Send.  Without processed data the handler returns;
\* otherwise sendMqttMessage is sent with the JSON of the text box
SendClick ==
    /\ ~extension.sendButton.disabled
    /\ extension.mqtt = Undefined
    /\ extension.processedAIData # Undefined
    /\ extension' = [extension EXCEPT !.mqtt = extension.finalJsonBox]
    /\ UNCHANGED run
    /\ UNCHANGED listenerrest

\* lines 222-262: the answer to sendMqttMessage; success sets the timer of
\* line 238
SendAnswered ==
    /\ extension.mqtt # Undefined
    /\ \E status \in {"success", "failure"} :
          extension' = [extension EXCEPT !.mqtt = Undefined,
                                         !.timer = @ \/ status = "success"]
    /\ UNCHANGED run
    /\ UNCHANGED listenerrest

\* lines 238-247: three seconds after a success the Process and Send
\* buttons are disabled
ResetButtons ==
    /\ extension.timer
    /\ extension' = [extension EXCEPT !.timer = FALSE,
                                      !.processButton.disabled = TRUE,
                                      !.sendButton.disabled = TRUE]
    /\ UNCHANGED run
    /\ UNCHANGED listenerrest

PopupNext ==
    \/ Navigate
    \/ ExtractFailed
    \/ ExtractSucceeded
    \/ ProcessClick
    \/ ProcessAnswered
    \/ SendClick
    \/ SendAnswered
    \/ ResetButtons

PopupSpec == PopupInit /\ [][PopupNext]_vars

\* ------------------------------------------------------- claims: helpers
\* the step appended an outcome: one iteration of the loop processed a message
Processed == Len(outcomes') = Len(outcomes) + 1

\* the outcome the step appended
NewOutcome == outcomes'[Len(outcomes')]

\* the RETRY a message arrives with, an absent RETRY counting as 0
Arrived(m) == IF m.RETRY = NoRetry THEN 0 ELSE m.RETRY

\* the step republished a copy of m carrying RETRY r, and nothing else
Republished(m, r) ==
    topic' = Append(topic, [kind |-> m.kind, id |-> m.id, LNG |-> m.LNG,
                            ACT |-> m.ACT, RES |-> m.RES, MP4URL |-> m.MP4URL,
                            RETRY |-> r])

\* the step appended m to the dead-letter store, and nothing else
DeadLettered(m) == FAILED_MSG_LOG' = Append(FAILED_MSG_LOG, m)

\* C1 (original): a failed download with incoming RETRY r is republished
\* with r+1 and not dead-lettered when r < 5, and dead-lettered and not
\* republished when r >= 5
C1_RequeueBelowFive ==
    [][(Processed /\ NewOutcome.error = "download") =>
        LET m == NewOutcome.msg
        IN  IF Arrived(m) < 5
            THEN Republished(m, Arrived(m) + 1) /\ UNCHANGED FAILED_MSG_LOG
            ELSE DeadLettered(m) /\ UNCHANGED topic]_vars

\* C1 (amended): a failed download with incoming RETRY r is republished
\* with r+1 and not dead-lettered when r < 4, and dead-lettered and not
\* republished when r >= 4; so RETRY=3 is requeued with RETRY=4 and RETRY=4
\* is dead-lettered
C1_RequeueBelowFour ==
    [][(Processed /\ NewOutcome.error = "download") =>
        LET m == NewOutcome.msg
        IN  IF Arrived(m) < 4
            THEN Republished(m, Arrived(m) + 1) /\ UNCHANGED FAILED_MSG_LOG
            ELSE DeadLettered(m) /\ UNCHANGED topic]_vars

\* both sides of the boundary have happened: a message that arrived with
\* RETRY=3 is back on the topic with RETRY=4, a message that arrived with
\* RETRY=4 is in the dead-letter store after its download failed
C1_Witness ==
    /\ \E i \in 1..Len(topic) : topic[i].RETRY = 4 /\ topic[i].id = 1
    /\ \E i \in 1..Len(FAILED_MSG_LOG) :
          FAILED_MSG_LOG[i].RETRY = 4 /\ FAILED_MSG_LOG[i].id = 2
    /\ \E i \in 1..Len(outcomes) :
          outcomes[i].error = "download" /\ outcomes[i].msg.RETRY = 3
    /\ \E i \in 1..Len(outcomes) :
          outcomes[i].error = "download" /\ outcomes[i].msg.RETRY = 4

\* C2: every republished message carries the RETRY of the message it was
\* derived from plus one (an absent RETRY counting as 0) and is otherwise
\* identical to it, so RETRY never decreases and never skips a value over
\* the redeliveries of a job
C2_RetryPlusOne ==
    [][(Processed /\ topic' # topic) =>
        Republished(NewOutcome.msg, Arrived(NewOutcome.msg) + 1)]_vars

\* a job published without RETRY has been redelivered twice: it is on the
\* topic with RETRY=2 after its download failed with RETRY=1
C2_Witness ==
    /\ Len(outcomes) > 0
    /\ outcomes[Len(outcomes)].msg.RETRY = 1
    /\ outcomes[Len(outcomes)].error = "download"
    /\ topic # <<>>
    /\ topic[Len(topic)].RETRY = 2
    /\ topic[Len(topic)].id = outcomes[Len(outcomes)].msg.id

\* a line the validator rejects: a required field is the empty string, or
\* the line is not a JSON document
HasEmptyField(m) ==
    m.kind = "garbled" \/ m.LNG = "" \/ m.ACT = "" \/ m.RES = "" \/ m.MP4URL = ""

\* C3 (original): a message that fails validation is republished with
\* RETRY+1 when its RETRY is below 5, and dead-lettered and not republished
\* when its RETRY is 5 or more
C3_InvalidIsRetried ==
    [][(Processed /\ NewOutcome.error = "validation") =>
        LET m == NewOutcome.msg
        IN  IF Arrived(m) < 5
            THEN Republished(m, Arrived(m) + 1)
            ELSE DeadLettered(m) /\ UNCHANGED topic]_vars

\* C3 (amended): a message that fails validation (a required field is the
\* empty string, or the line is not JSON) is neither republished nor
\* dead-lettered, whatever its RETRY; it is only counted as failed
C3_InvalidIsDropped ==
    [][(Processed /\ (NewOutcome.error = "validation" \/ HasEmptyField(NewOutcome.msg))) =>
        /\ NewOutcome.error = "validation"
        /\ UNCHANGED <<topic, FAILED_MSG_LOG, placed, count, retry_count>>
        /\ failed_count' = failed_count + 1]_vars

\* a first-time message with an empty MP4URL and one with RETRY=5 were both
\* rejected in this cycle and counted, with nothing republished or stored
C3_Witness ==
    /\ pc = "done"
    /\ Len(outcomes) = 2
    /\ outcomes[1].msg.MP4URL = "" /\ outcomes[1].msg.RETRY = NoRetry
    /\ outcomes[2].msg.MP4URL = "" /\ outcomes[2].msg.RETRY = 5
    /\ outcomes[1].error = "validation" /\ outcomes[2].error = "validation"
    /\ failed_count = 2
    /\ topic = <<>>
    /\ FAILED_MSG_LOG = <<>>

\* a required field of the message is absent or the empty string
Defective(m) ==
    \E f \in {"LNG", "ACT", "RES", "MP4URL"} : m[f] \in {"", Absent}

\* C4: a message with a required field absent or empty is classified as
\* invalid, and no format listing and no download is started for it
C4_AbsentOrEmptyIsInvalid ==
    \A i \in 1..Len(outcomes) :
        (outcomes[i].msg.kind = "json" /\ Defective(outcomes[i].msg)) =>
            /\ outcomes[i].error = "validation"
            /\ outcomes[i].FVCODE = "-"
            /\ ~outcomes[i].downloadStarted

\* C5 (original): a job whose format resolution finds no video or no
\* audio id is republished with RETRY+1 and not dead-lettered when its
\* RETRY is below 5, and dead-lettered only when its RETRY is 5 or more
C5_FormatFailureIsRetried ==
    [][(Processed /\ NewOutcome.error = "format") =>
        LET m == NewOutcome.msg
        IN  IF Arrived(m) < 5
            THEN Republished(m, Arrived(m) + 1) /\ UNCHANGED FAILED_MSG_LOG
            ELSE DeadLettered(m) /\ UNCHANGED topic]_vars

\* C5 (amended): a job whose format resolution finds no video or no audio
\* id is appended to the dead-letter store and not republished, whatever its
\* RETRY, and its download is not started; every message that passes
\* validation has its candidate list fetched in that very attempt
C5_FormatFailureIsDeadLettered ==
    [][Processed =>
        /\ (NewOutcome.error # "validation") = (NewOutcome.FVCODE # "-")
        /\ (NewOutcome.FVCODE = "" \/ NewOutcome.FACODE = "") =>
              /\ NewOutcome.error = "format"
              /\ ~NewOutcome.downloadStarted
              /\ DeadLettered(NewOutcome.msg)
              /\ UNCHANGED <<topic, placed>>]_vars

\* a first-time job (no RETRY) whose listing had audio but no video of the
\* requested height is in the dead-letter store and not on the topic
C5_Witness ==
    /\ Len(outcomes) > 0
    /\ outcomes[Len(outcomes)].error = "format"
    /\ outcomes[Len(outcomes)].FVCODE = ""
    /\ outcomes[Len(outcomes)].FACODE = "140"
    /\ outcomes[Len(outcomes)].msg.RETRY = NoRetry
    /\ outcomes[Len(outcomes)].msg.RES = "1080"
    /\ FAILED_MSG_LOG = <<outcomes[Len(outcomes)].msg>>
    /\ topic = <<>>

\* the lines of the batch that are not empty
NonEmpty(lines) == SelectSeq(lines, LAMBDA l : l.kind # "empty")

\* C6: at the end of every poll cycle the success, requeued and failed
\* counts add up to the number of non-empty messages drained in the batch
C6_CountsAddUp ==
    pc = "done" => count + retry_count + failed_count = Len(NonEmpty(messages))

\* number of the three effects the step had: a file moved to a destination,
\* a message republished, a line appended to the dead-letter store
Effects ==
    (IF placed' # placed THEN 1 ELSE 0) + (IF topic' # topic THEN 1 ELSE 0)
    + (IF FAILED_MSG_LOG' # FAILED_MSG_LOG THEN 1 ELSE 0)

\* how many times job j was finalized: placed or dead-lettered
Finalized(j) ==
    Len(SelectSeq(placed, LAMBDA id : id = j))
    + Len(SelectSeq(FAILED_MSG_LOG, LAMBDA m : m.id = j))

\* C7 (original): every processed message has exactly one of the three
\* effects (placed, republished, dead-lettered), never none and never two;
\* stated for the messages whose downloaded file, if any, was moved
C7_ExactlyOneEffect ==
    [][(Processed /\ (NewOutcome.error = "none" => NewOutcome.moved)) =>
        Effects = 1]_vars

\* C7 (amended): every processed message has at most one of the three
\* effects, never two; it has none exactly when it failed validation or
\* when its download succeeded and the move of the file failed; and a job
\* is finalized (placed or dead-lettered) at most once over the poll cycles
C7_AtMostOneEffect ==
    /\ [][Processed =>
            /\ Effects <= 1
            /\ (Effects = 0) =
                  (\/ NewOutcome.error = "validation"
                   \/ NewOutcome.error = "none" /\ ~NewOutcome.moved)]_vars
    /\ [](\A j \in JobIds : Finalized(j) <= 1)

\* in one cycle the validator rejected the first message, with no effect,
\* and the second job was downloaded and its file moved: one effect
C7_Witness ==
    /\ pc = "done"
    /\ Len(outcomes) = 2
    /\ outcomes[1].error = "validation"
    /\ outcomes[2].error = "none"
    /\ outcomes[2].moved
    /\ placed = <<outcomes[2].msg.id>>
    /\ topic = <<>>
    /\ FAILED_MSG_LOG = <<>>

\* a line of job j is on the topic or in the unread input of the loop
InFlight(j) ==
    \/ \E i \in 1..Len(topic) : topic[i].id = j
    \/ \E i \in 1..Len(stdin) : stdin[i].id = j

\* job j has a file in a destination directory or a dead-letter record
Terminal(j) == Finalized(j) > 0

ProcessedMessages == [i \in 1..Len(outcomes) |-> outcomes[i].msg]

\* C9: every non-empty message drained in a cycle is processed, in broker
\* delivery order, whatever the outcomes of the messages before it
C9_WholeBatchProcessed ==
    pc = "done" => ProcessedMessages = NonEmpty(messages)

\* C10: the batch of a cycle is fixed when the poll returns: what the loop
\* reads comes from the batch only, and no job is processed twice in one
\* cycle, also after it was requeued during the cycle
C10_RequeuedNotSeenInSameCycle ==
    pc \in {"loop", "done"} =>
        /\ Len(outcomes) + Len(stdin) <= Len(messages)
        /\ \A i, k \in 1..Len(outcomes) :
              i # k => outcomes[i].msg.id # outcomes[k].msg.id
        /\ \A i \in 1..Len(stdin) :
              \E k \in 1..Len(messages) :
                  stdin[i] \in {messages[k], Garbled(messages[k])}

\* the first job of a batch of two was requeued and the loop went on to the
\* second one; the cycle ended with the requeued message waiting on the topic
C10_Witness ==
    /\ pc = "done"
    /\ Len(messages) = 2
    /\ Len(outcomes) = 2
    /\ outcomes[1].error = "download"
    /\ outcomes[1].msg = messages[1]
    /\ topic = <<[messages[1] EXCEPT !.RETRY = 1]>>
    /\ outcomes[2].msg = messages[2]

\* ------------------------------------- claims on the format resolver
\* the entry has its two format ids: lines 123-176 have run
Resolved == video.at \in {"download", "normalize", "destination", "done"}

\* the video candidates of the listing that carry the selected id
SelectedVideo ==
    SelectSeq(video.VFORMAT, LAMBDA c : c.id = video.VDOWNLOADFORMAT)

\* the heights of the listing
ListedHeights == {video.VFORMAT[i].height : i \in 1..Len(video.VFORMAT)}

\* C11: for every requested resolution R and non-empty list of video
\* candidates with heights H, in any listing order, the resolver selects a
\* candidate of height R when R is in H, else of the least height above R
\* when there is one, else of the greatest height of H
C11_NearestHeightSelected ==
    (Resolved /\ video.VFORMAT # <<>>) =>
        /\ SelectedVideo # <<>>
        /\ LET R == video.RESOLUTION
               H == ListedHeights
               h == SelectedVideo[1].height
           IN  IF R \in H THEN h = R
               ELSE IF \E x \in H : x > R
                    THEN h > R /\ \A x \in H : x > R => h <= x
                    ELSE \A x \in H : h >= x

\* C12: the selected candidate is of the most preferred encoding family
\* (av01, then avc1, then vp9, then any other) among the candidates of its
\* height
C12_BestEncodingOfHeightGroup ==
    (Resolved /\ video.VFORMAT # <<>>) =>
        /\ SelectedVideo # <<>>
        /\ \A i \in 1..Len(video.VFORMAT) :
              video.VFORMAT[i].height = SelectedVideo[1].height =>
                  pref(SelectedVideo[1].encoding) <= pref(video.VFORMAT[i].encoding)

\* C13: audio selection returns the first candidate of quality high if
\* there is one, else the first of quality medium, else the first of
\* quality low, and the last-listed candidate when none has such a quality
C13_AudioByTierElseLastListed ==
    (video.at \in {"video", "lastresort"} \/ Resolved) =>
        LET A == video.AFORMAT
            has(q) == \E i \in 1..Len(A) : A[i].quality = q
            first(q) == A[CHOOSE i \in 1..Len(A) :
                              /\ A[i].quality = q
                              /\ \A k \in 1..(i - 1) : A[k].quality # q]
            chosen == video.ADOWNLOADFORMAT
        IN  IF has("high") THEN chosen = first("high").id
            ELSE IF has("medium") THEN chosen = first("medium").id
            ELSE IF has("low") THEN chosen = first("low").id
            ELSE A # <<>> => chosen = A[Len(A)].id

\* a listing with a low candidate before a medium one: the medium one, the
\* second line, was selected and handed to the downloader
C13_Witness ==
    /\ video.at = "done"
    /\ ~video.DRY_RUN
    /\ Len(video.AFORMAT) = 2
    /\ video.AFORMAT[1].quality = "low"
    /\ video.AFORMAT[2].quality = "medium"
    /\ video.ADOWNLOADFORMAT = AudioIds[2]
    /\ video.format[2] = AudioIds[2]

\* C14: when no video id or no audio id is found at all, the hard-coded id
\* (401 for video, 251 for audio) is used, so the downloader is never run
\* with an empty or null format id
C14_LastResortIds ==
    (video.at \in {"normalize", "destination", "done"} /\ ~video.DRY_RUN) =>
        /\ video.format[1] \notin {"", Null}
        /\ video.format[2] \notin {"", Null}
        /\ video.VFORMAT = <<>> => video.format[1] = "401"
        /\ video.AFORMAT = <<>> => video.format[2] = "251"

\* ------------------------------------------- claims on the placement
\* the language of the job has been normalized: line 160 of downloadMqtt.sh
\* has run, line 162 has not
LngNormalized == classifier.at = "target"

\* the language of the entry has been normalized: line 210 of the
\* file-driven downloader has run, line 211 has not
LangNormalized == video.at = "destination"

SouthWords == {"telugu", "tamil", "kannada", "malayalam"}

\* C15 (original): in any letter case telugu, tamil, kannada and malayalam
\* become South, hindi and bengali become Hindi, english, marathi and
\* bhojpuri become English, Marathi and Bhojpuri, and every other input is
\* returned unchanged
C15_NormalizationTable ==
    LET Canonical(x) ==
            IF x.word \in SouthWords THEN Title("south")
            ELSE IF x.word \in {"hindi", "bengali"} THEN Title("hindi")
            ELSE IF x.word \in {"english", "marathi", "bhojpuri"} THEN Title(x.word)
            ELSE x
    IN  /\ LngNormalized => classifier.LNG = Canonical(classifier.job.LNG)
        /\ LangNormalized => video.LANG = Canonical(video.entry.LANG)

\* C15 (amended): downloadMqtt.sh maps telugu, kannada, tamil, malayalam
\* and malyalam, in any letter case, to South and returns every other
\* input, hindi and bengali included, unchanged; the file-driven downloader
\* maps telugu, tamil, malayalam and kannada to South, hindi and bengali to
\* Hindi, english, marathi and bhojpuri to English, Marathi and Bhojpuri,
\* and returns every other input lower-cased
C15_NormalizationPerScript ==
    /\ LngNormalized =>
          classifier.LNG =
              IF classifier.job.LNG.word \in SouthWords \cup {"malyalam"}
              THEN Title("south") ELSE classifier.job.LNG
    /\ LangNormalized =>
          video.LANG =
              LET w == video.entry.LANG.word
              IN  IF w \in SouthWords THEN Title("south")
                  ELSE IF w \in {"hindi", "bengali"} THEN Title("hindi")
                  ELSE IF w \in {"english", "marathi", "bhojpuri"} THEN Title(w)
                  ELSE Lower(w)

\* downloadMqtt.sh has normalized the language of a job with LNG bengali
\* and left it as it was
C15_Witness ==
    /\ LngNormalized
    /\ classifier.job.LNG = Lower("bengali")
    /\ classifier.LNG = Lower("bengali")

\* C16: normalization is idempotent: normalizing a normalized language
\* gives the same language, for the outputs South, Hindi, English, Marathi
\* and Bhojpuri and for unrecognized languages
C16_NormalizeIdempotent ==
    /\ LngNormalized => NormalizeLng(classifier.LNG) = classifier.LNG
    /\ LangNormalized => NormalizeLang(video.LANG) = video.LANG

\* the bucket of the thresholds <=720, <=1080, <=1440, <=2160, above
Bucket(n) ==
    IF n <= 720 THEN "720p"
    ELSE IF n <= 1080 THEN "1080p"
    ELSE IF n <= 1440 THEN "2k"
    ELSE "4k"

\* the bucket of the file has been computed: line 153 has run
Bucketed == classifier.at \in {"language", "target", "move", "done"}

\* C17 (original): the bucket of a placed file is the one the thresholds
\* give for the probed height, whatever the probed height; the requested
\* resolution is bucketed by the same thresholds only when probing fails;
\* stated for the jobs whose requested resolution is an integer
C17_BucketByProbedHeight ==
    (Bucketed /\ classifier.job.RES.digits) =>
        classifier.VRES =
            IF classifier.HEIGHT # <<>>
            THEN Bucket(classifier.HEIGHT[1])
            ELSE Bucket(classifier.job.RES.n)

\* C17 (amended): the bucket is looked up from the probed height only when
\* the probe prints exactly 720, 1080, 1440 or 2160 (720p, 1080p, 2k, 4k);
\* for any other probed height, and when probing fails, the requested
\* resolution is bucketed by the thresholds, and a requested resolution that
\* is no integer gives 4k.  The file-driven downloader does not probe: its
\* bucket comes from the requested resolution, >=1440 4k, above 1080 2k,
\* above 720 1080p, 720 720p, <=600 sd, else 1080p
C17_BucketByExactHeight ==
    /\ Bucketed =>
          classifier.VRES =
              IF classifier.HEIGHT \in {<<720>>, <<1080>>, <<1440>>, <<2160>>}
              THEN Bucket(classifier.HEIGHT[1])
              ELSE IF classifier.job.RES.digits
                   THEN Bucket(classifier.job.RES.n) ELSE "4k"
    /\ video.at \notin {"idle", "entry"} =>
          video.resDir =
              LET r == video.RESOLUTION
              IN  IF r >= 1440 THEN "4k"
                  ELSE IF r > 1080 THEN "2k"
                  ELSE IF r = 720 THEN "720p"
                  ELSE IF r <= 600 THEN "sd"
                  ELSE "1080p"

\* a file probed at height 480 for a job that asked for 1080 is in the
\* bucket of the request, 1080p
C17_Witness ==
    /\ classifier.at = "done"
    /\ classifier.HEIGHT = <<480>>
    /\ classifier.job.RES = Number(1080)
    /\ classifier.VRES = "1080p"
    /\ classifier.moved

\* the job is not a movie: TYPE is not movie in any letter case
IsSong == classifier.job.TYPE.word # "movie"

\* C18: the file of a song goes to <songRoot>/<normalized language>/
\* <resolution bucket>/<actor>, the actor being ACT unchanged; LNG=Telugu,
\* ACT=Anushka, RES=1080 probed at 1080 goes to <songRoot>/South/1080p/Anushka
C18_SongDestination ==
    (classifier.at \in {"move", "done"} /\ IsSong) =>
        /\ classifier.TARGET_DIR =
              <<"BASE_SONG_DIR",
                IF classifier.job.LNG.word \in SouthWords \cup {"malyalam"}
                THEN Title("south") ELSE classifier.job.LNG,
                Lower(classifier.VRES),
                classifier.job.ACT>>
        /\ (/\ classifier.job.LNG = Title("telugu")
            /\ classifier.job.ACT = Title("anushka")
            /\ classifier.job.RES = Number(1080)
            /\ classifier.HEIGHT = <<1080>>) =>
              classifier.TARGET_DIR =
                  <<"BASE_SONG_DIR", Title("south"), Lower("1080p"), Title("anushka")>>

\* the song of the example has been moved to South/1080p/Anushka
C18_Witness ==
    /\ classifier.at = "done"
    /\ classifier.moved
    /\ classifier.job =
          [LNG |-> Title("telugu"), ACT |-> Title("anushka"),
           RES |-> Number(1080), TYPE |-> Lower("song")]
    /\ classifier.HEIGHT = <<1080>>
    /\ classifier.TARGET_DIR =
          <<"BASE_SONG_DIR", Title("south"), Lower("1080p"), Title("anushka")>>

\* C19: the file of a movie goes to <movieRoot>/hollywood when the
\* original language of the job is English in any letter case, and to
\* <movieRoot>/bollywood otherwise, without actor or bucket in the path
C19_MovieDestination ==
    /\ (classifier.at \in {"move", "done"} /\ ~IsSong) =>
          classifier.TARGET_DIR =
              <<"BASE_MOVIE_DIR",
                IF classifier.job.LNG.word = "english"
                THEN Lower("hollywood") ELSE Lower("bollywood")>>
    /\ (video.at = "done" /\ video.entry.actress.word = "movie") =>
          video.FINAL_DESTINATION =
              <<"MOVIE_STORE_DIR",
                IF video.entry.LANG.word = "english"
                THEN Lower("hollywood") ELSE Lower("bollywood")>>

\* ---------------------------------------------- claims on the report
\* C20: an invocation that drained a message emits one batch report that
\* covers the successes, the requeues and the failures of the cycle: it is
\* written to the log and one notification is sent, also when every job of
\* the cycle was requeued
C20_OneReportCoveringAllOutcomes ==
    pc = "done" =>
        /\ Len(report.posts) = 1
        /\ report.log # <<>>
        /\ \A section \in (IF retry_count > 0 THEN {"retry_summary"} ELSE {})
                          \cup (IF failed_count > 0 THEN {"failed_summary"} ELSE {}) :
              /\ \E i \in 1..Len(report.log) : report.log[i] = section
              /\ \E i \in 1..Len(report.posts[1]) : report.posts[1][i] = section

\* ------------------------------------------- claims on the invocation
\* every message of the batch has its four required fields
CompleteBatch ==
    \A i \in 1..Len(messages) : messages[i].kind = "json" /\ ~Defective(messages[i])

\* C21: the exit status of an invocation is 0 whatever the mix of
\* successes, requeues and failures of its cycle, also when the
\* notification POST fails, and the POST changes none of the three counts;
\* stated for the batches whose messages have their four required fields
C21_ExitStatusZero ==
    /\ CompleteBatch => report.exit \in {<<>>, <<0>>}
    /\ pc = "done" =>
          /\ count = Len(summary)
          /\ retry_count = Len(retry_summary)
          /\ failed_count = Len(failed_summary)

\* the step of an invocation that ends at line 31: it started and did not
\* enter the loop (a step that is not one of the environment)
EmptyPoll ==
    pc \in {"idle", "done"} /\ pc' = "idle" /\ UNCHANGED <<published, slack>>

\* C22: an invocation whose poll returns no message, also because the
\* broker cannot be reached, ends at once with status 0 and no effect: no
\* working directory is created, no message is added to the topic, nothing
\* is appended to the dead-letter store, no job is processed, no file is
\* placed and no notification is sent
C22_EmptyPollHasNoEffect ==
    [][EmptyPoll =>
        /\ workdir' = workdir
        /\ workdir' = "absent"
        /\ \A i \in 1..Len(topic') : \E k \in 1..Len(topic) : topic'[i] = topic[k]
        /\ Len(topic') <= Len(topic)
        /\ FAILED_MSG_LOG' = FAILED_MSG_LOG
        /\ placed' = placed
        /\ outcomes' = <<>>
        /\ count' = 0 /\ retry_count' = 0 /\ failed_count' = 0
        /\ report'.posts = <<>>
        /\ report'.exit = <<0>>]_vars

\* an invocation found the broker unreachable while a message was queued:
\* it ended with status 0, the message is still queued and nothing else
\* happened
C22_Witness ==
    /\ pc = "idle"
    /\ report = EmptyBatchExit
    /\ Len(topic) = 1
    /\ topic[1].kind = "json"
    /\ workdir = "absent"
    /\ outcomes = <<>>
    /\ FAILED_MSG_LOG = <<>>
    /\ placed = <<>>

\* ---------------------------------------------- claims on the report
\* the place of the entry of message m in the report
Place(m) == CHOOSE i \in 1..Len(report.lines) : report.lines[i] = m

\* the place of message m in the processing order of the cycle
Turn(m) == CHOOSE i \in 1..Len(outcomes) : outcomes[i].msg = m

\* the section of the report the entry of message m is in: successes,
\* requeues, failures
Section(m) ==
    IF Succeeded(outcomes[Turn(m)]) THEN 1
    ELSE IF Requeued(outcomes[Turn(m)]) THEN 2 ELSE 3

Reported == {report.lines[i] : i \in 1..Len(report.lines)}

\* C26 (original): the entries of the report are in processing order across
\* all outcome kinds: when A was processed before B and both have an entry,
\* the entry of A precedes the entry of B; stated for the batches whose
\* messages have their four required fields
C26_ReportInProcessingOrder ==
    (pc = "done" /\ CompleteBatch) =>
        \A A, B \in Reported : Turn(A) < Turn(B) => Place(A) < Place(B)

\* C26 (amended): the report lists the outcomes by kind, the successes
\* first, then the requeued jobs, then the failures, and within one kind in
\* processing order; every entry is about a message processed in the cycle
C26_ReportGroupedByKind ==
    pc = "done" =>
        /\ \A A \in Reported : \E i \in 1..Len(outcomes) : outcomes[i].msg = A
        /\ \A A, B \in Reported :
              Place(A) < Place(B) <=>
                  \/ Section(A) < Section(B)
                  \/ Section(A) = Section(B) /\ Turn(A) < Turn(B)

\* the first message of a cycle was rejected and the second one downloaded:
\* the report has the entry of the second before the entry of the first
C26_Witness ==
    /\ pc = "done"
    /\ Len(outcomes) = 2
    /\ outcomes[1].error = "validation"
    /\ outcomes[2].error = "none"
    /\ report.lines = <<outcomes[2].msg, outcomes[1].msg>>
    /\ Len(report.posts) = 1

\* ------------------------------------ claims on the dead-letter store
\* the lines of the batch as mosquitto_sub printed them
Received == {messages[i] : i \in 1..Len(messages)}

C29_UnknownResStillDownloaded ==
    \A i \in 1..Len(outcomes) :
        (/\ outcomes[i].msg.kind = "json"
         /\ ~Defective(outcomes[i].msg)
         /\ UnknownRES(outcomes[i].msg.RES)
         /\ outcomes[i].FACODE \notin {"", "-"}) =>
            /\ outcomes[i].error \notin {"validation", "format"}
            /\ outcomes[i].downloadStarted

\* ------------------------------------------- claims: overlapping cycles
\* the invocation is between its start and its exit
Running(p) == run[p].pc \notin {"off", "exited"}

\* C23: invocations are serialized over the whole cycle, the poll
\* included: no invocation runs while another one is between its start and
\* its exit. Stated for invocations started in different seconds.
C23_CyclesSerialized ==
    \A p, q \in Runs :
        (p # q /\ Running(p) /\ Running(q)) =>
            run[p].timestamp = run[q].timestamp

\* C24: two invocations that overlap use different working directories:
\* the most recent file an invocation finds is one it wrote, and the
\* directory of an invocation that is downloading or about to move is
\* there.
C24_DistinctWorkingDirectories ==
    \A p \in Runs :
        Running(p) =>
            /\ \A q \in Runs \ {p} :
                   Running(q) => run[q].timestamp # run[p].timestamp
            /\ (run[p].pc = "move" /\ run[p].FILE # <<>>) =>
                   run[p].FILE[1].by = p
            /\ run[p].pc \in {"download", "find", "move"} =>
                   run[p].timestamp \in DOMAIN tmp

\* C25: the download of a message that was sent again after a failed
\* download finds, in its working directory, what the failed download left,
\* and goes on from it. Stated for a cycle that runs alone, after the
\* cycle of the failed download has ended.
C25_RetryResumesPartial ==
    \A p \in Runs :
        (/\ run[p].pc = "download"
         /\ JqRetry(Head(run[p].batch)) > 0
         /\ ~run[p].overlapped
         /\ \A q \in Runs \ {p} : ~Running(q)) =>
            run[p].resumed

\* the file FILE of invocation p is in its working directory
InWorkdir(p) ==
    /\ run[p].FILE # <<>>
    /\ \E i \in 1..Len(Files(tmp, run[p].timestamp)) :
           Files(tmp, run[p].timestamp)[i] = run[p].FILE[1]

\* C28: placing a file at a destination that has a file already does not
\* fail: the file is moved out of the working directory, it takes the place
\* of the one that was there, and the destination tree has the files it had.
C28_SecondPlacementOverwrites ==
    [][\A p \in Runs :
          (/\ run[p].pc = "move"
           /\ run'[p].pc = "loop"
           /\ InWorkdir(p)
           /\ DestOf(Head(run[p].batch), run[p].FILE[1]) \in DOMAIN dest) =>
              LET path == DestOf(Head(run[p].batch), run[p].FILE[1])
              IN  /\ DOMAIN dest' = DOMAIN dest
                  /\ dest'[path] = [run[p].FILE[1] EXCEPT !.by = p]
                  /\ \A other \in DOMAIN dest \ {path} :
                         dest'[other] = dest[other]
                  /\ placed' = Append(placed, run[p].FILE[1].video)
                  /\ ~ \E i \in 1..Len(Files(tmp', run[p].timestamp)) :
                         Files(tmp', run[p].timestamp)[i] = run[p].FILE[1]
      ]_vars

\* the request for video 1 was delivered to two invocations one after the
\* other, and the file of the second one is at the destination
C28_Witness ==
    /\ \A p \in Runs : run[p].pc = "exited"
    /\ placed = <<1, 1>>
    /\ DOMAIN dest = {DestOf(VideoRequest(1), FileOf(<<"url", 1>>, FALSE, 2))}
    /\ \A path \in DOMAIN dest : dest[path].by = 2

\* ------------------------------------------------ claims: the extension
\* the request in hand went through the fallback: the Ollama request
\* failed or its answer could not be parsed
OllamaFailed == extension.at = "sent" /\ extension.ollama # "ok"

\* C30: when the Ollama request fails, the message the extension has
\* published carries LNG "en", ACT "Unknown", RES 1080 and the URL of the
\* page as MP4URL.
C30_FallbackDefaultsPublished ==
    OllamaFailed =>
        /\ topic # <<>>
        /\ topic[Len(topic)] =
               Stringify(published, FallbackDataOfDoc(extension.videoData))

\* C31: every message the extension has published has the four keys LNG,
\* ACT, MP4URL and RES, and no other.
C31_ExactlyFourKeys ==
    \A i \in 1..Len(topic) :
        PayloadKeys(topic[i]) = {"LNG", "ACT", "MP4URL", "RES"}

\* ------------------------------------- claims: the steps after a download
\* C32: every job counted and reported as a success has its file at the
\* reported destination path when it is counted, and its metadata rewrite,
\* its probe and its move did not fail.
C32_SuccessOnlyIfPlaced ==
    /\ count = Len(outcomes)
    /\ \A i \in 1..Len(outcomes) :
           /\ outcomes[i].present
           /\ outcomes[i].rewrite = "ok"
           /\ outcomes[i].probe = "ok"
           /\ outcomes[i].mv = "ok"

\* -------------------------------- claims: the file-driven downloader
\* C33: a file at the destination of a job is a file of that job's own
\* download.
C33_MovedFileIsOwn ==
    \A path \in DOMAIN dest :
        FINAL_DESTINATION(dest[path].video) = path[1]

\* C40: no step of a run with --dry-run creates, removes or replaces the
\* lock file, the output directory, the download list or its replacement,
\* places a file or runs yt-dlp, and the run does not stop at the lock
\* file.
C40_DryRunChangesNothing ==
    [][run.DRY_RUN =>
          /\ tmp' = tmp
          /\ dest' = dest
          /\ run'.ran = <<>>
          /\ run'.pc # "locked"]_vars

\* a run with --dry-run has gone through a list with an entry while the
\* lock file and a replacement list were there, and they still are
C40_Witness ==
    /\ run.DRY_RUN
    /\ run.pc = "exited"
    /\ {lockFile, downloadFile, downloadFileTmp} \subseteq DOMAIN tmp
    /\ \E i \in 1..Len(tmp[downloadFile]) : tmp[downloadFile][i] # NoUrl

\* C34: in the legacy variants a Slack notification is sent after the batch
\* exactly when at least one download of the batch succeeded, and it reports
\* the number of successes with their summary lines
C34_NotifiedIffSucceeded ==
    (run.pc = "done" /\ messages # <<>>) =>
        /\ (report.posts # <<>>) <=> (placed # <<>>)
        /\ \A i \in 1..Len(report.posts) :
              /\ report.posts[i].count = Len(placed)
              /\ Len(report.posts[i].summary) = Len(placed)

\* the non-empty lines of a file, in file order
NonEmptyLines(lines) == SelectSeq(lines, LAMBDA l : l # "")

\* C39: a run of retry.sh publishes every non-empty line of the dead-letter
\* file exactly once and in file order, a last line without newline
\* included; it never changes the file; without the file it publishes
\* nothing and exits 1
C39_RetryPublishesEveryLine ==
    /\ [](run.pc = "done" =>
            IF FAILED_MSG_LOG = Missing
            THEN topic = <<>> /\ report.exit = <<1>>
            ELSE topic = NonEmptyLines(FAILED_MSG_LOG.lines))
    /\ [][FAILED_MSG_LOG' = FAILED_MSG_LOG]_vars

\* a file whose last line has no newline was published to its end, after an
\* empty line in the middle
C39_Witness ==
    /\ run.pc = "done"
    /\ FAILED_MSG_LOG # Missing
    /\ ~FAILED_MSG_LOG.newline
    /\ Len(FAILED_MSG_LOG.lines) = 2
    /\ FAILED_MSG_LOG.lines[1] = ""
    /\ topic = <<FAILED_MSG_LOG.lines[2]>>

\* C35: every request the listener receives is answered by exactly one call
\* of sendResponse: at most one call is made for a request, a request that
\* is not being handled any more has its call, and a request being handled
\* gets to that point
C35_EveryRequestAnswered ==
    /\ [](extension.responses <= 1)
    /\ []((extension.pc = "idle" /\ extension.request # Undefined)
             => extension.responses = 1)
    /\ (extension.pc \in {"loading", "connecting", "sent"})
          ~> (extension.pc = "idle")

\* C36: after a failed load at start-up a sendMqttMessage request makes a
\* new attempt to load the library, and it is answered success when the
\* library is available by then and the message is sent
C36_LoadedOnDemand ==
    [][(/\ extension.pc = "idle"
        /\ extension.pahoLoadPromise = "rejected"
        /\ extension'.request = "sendMqttMessage"
        /\ extension'.pc = "loading")
       => (/\ extension'.imports = extension.imports + 1
           /\ run.importScripts = "valid"
                 => extension'.pahoLoadPromise # "rejected")]_vars

\* C37: the listener answers success to a sendMqttMessage request only if
\* the broker has acknowledged the message by then
C37_SuccessOnlyIfDelivered ==
    (/\ extension.request = "sendMqttMessage"
     /\ extension.response = "success")
        => extension.delivered

\* C38: in the three-step popup Send dispatches a payload derived from the
\* most recently extracted video, and only once AI processing has succeeded
\* for that extraction; processWithAI is dispatched only after a successful
\* extraction
C38_SendFollowsLatestExtraction ==
    [][/\ (extension.mqtt = Undefined /\ extension'.mqtt # Undefined)
            => /\ extension'.mqtt = extension.extractedVideoData
               /\ extension.processed
       /\ (extension.ai = Undefined /\ extension'.ai # Undefined)
            => extension.extractedVideoData # Undefined]_vars

====
